---- MODULE Spec2Model ----
(***************************************************************************)
(* Model of the Trustified pipeline: cron_job.py (retry wrapper, usage     *)
(* counter, process_pending_video, generate_report_with_gemini,            *)
(* fetch_product_image, check_new_videos, main) over a store with the two  *)
(* collections videos and reports.                                         *)
(***************************************************************************)
EXTENDS Integers, Sequences, FiniteSets, TLC

VARIABLES
    videos,         \* the videos collection: row id (1..Len) -> row
    reports,        \* the reports collection: a function report id -> row
    usage,          \* gemini_usage.txt: NoRecord or [date, count]
    today,          \* the calendar day datetime.now() reports
    pc,             \* position of the running process in main / process_pending_video
    video,          \* local `video` of process_pending_video (0: not bound)
    reports_array,  \* local `reports_array` of process_pending_video
    idx,            \* loop index `i` of the report loop
    image_url,      \* local `image_url` of the report loop
    runs,           \* number of main() executions started
    log,            \* history of the current run (what the run did)
    retry,          \* the frame of one retry_supabase_operation call
    ophist,         \* the outcomes of operation_func() in that call, in order
    vin,            \* a report payload handed to the verdict derivation
    vout,           \* what the derivation produced for vin
    uc,             \* the callers of the usage counter and what they observed
    xin,            \* a response text handed to the extraction stage
    xout,           \* what the extraction stage returned for xin
    din,            \* a duration string handed to parse_duration_to_seconds
    dout,           \* what parse_duration_to_seconds returned for din
    xtext,          \* response_text as the extraction stage hands it to json.loads
    channel,        \* the channel's videos as the YouTube search lists them
    peer            \* a second process running main: its frame while it is not scheduled

vars == <<videos, reports, usage, today, pc, video, reports_array, idx,
          image_url, runs, log, retry, ophist, vin, vout, uc, xin, xout,
          din, dout, xtext, channel, peer>>

storeVars == <<videos, usage, today>>
localVars == <<video, reports_array, idx, image_url>>
unitVars == <<uc, xin, xout, din, dout, xtext, channel, peer>>
auxVars == <<retry, ophist, vin, vout, unitVars>>

----------------------------------------------------------------------------
(* Bounds of the model *)

MaxRuns == 2
MaxReports == 2
MaxRetriesArg == 5
MaxDelayArg == 3
MaxTests == 2

----------------------------------------------------------------------------
(* Text: a Python str is a sequence of one-character strings *)

UpperChars == <<"A", "D", "E", "F", "G", "I", "L", "N", "P", "S", "U">>
LowerChars == <<"a", "d", "e", "f", "g", "i", "l", "n", "p", "s", "u">>
Whitespace == {" ", "\t", "\n"}

LowerChar(c) ==
    IF \E j \in 1..Len(UpperChars) : UpperChars[j] = c
    THEN LowerChars[CHOOSE j \in 1..Len(UpperChars) : UpperChars[j] = c]
    ELSE c

\* str.lower()
Lower(s) == [j \in 1..Len(s) |-> LowerChar(s[j])]

\* str.strip(): drops the leading and the trailing whitespace
Strip(s) ==
    LET keep == {j \in 1..Len(s) : s[j] \notin Whitespace}
    IN  IF keep = {} THEN <<>>
        ELSE LET lo == CHOOSE j \in keep : \A k \in keep : j <= k
                 hi == CHOOSE j \in keep : \A k \in keep : j >= k
             IN  SubSeq(s, lo, hi)

S_passed == <<"p", "a", "s", "s", "e", "d">>
S_pass == <<"p", "a", "s", "s">>
S_fail == <<"f", "a", "i", "l">>
S_pending == <<"p", "e", "n", "d", "i", "n", "g">>
S_not_assigned == <<"n", "o", "t", " ", "a", "s", "s", "i", "g", "n", "e", "d">>

----------------------------------------------------------------------------
(* JSON values as json.loads builds them: tagged records.  A dict keeps its
   entries in insertion order, as a sequence of <<key, value>> pairs. *)

JStr(s) == [t |-> "str", s |-> s]
JNull == [t |-> "null"]
JNum(n) == [t |-> "num", n |-> n]
JObj(kv) == [t |-> "obj", kv |-> kv]
JList(items) == [t |-> "list", items |-> items]
JBool(b) == [t |-> "bool", b |-> b]

IsDict(x) == x.t = "obj"
IsStr(x) == x.t = "str"

\* Python truthiness (`if x:` / `not x`)
Truthy(x) ==
    CASE x.t = "str" -> Len(x.s) > 0
      [] x.t = "obj" -> Len(x.kv) > 0
      [] x.t = "list" -> Len(x.items) > 0
      [] x.t = "num" -> x.n # 0
      [] x.t = "bool" -> x.b
      [] OTHER -> FALSE

\* `key in d`
HasKey(d, key) == \E j \in 1..Len(d.kv) : d.kv[j][1] = key

\* d.get(key, default)
DictGet(d, key, default) ==
    IF HasKey(d, key)
    THEN d.kv[CHOOSE j \in 1..Len(d.kv) : d.kv[j][1] = key][2]
    ELSE default

----------------------------------------------------------------------------
(* retry_supabase_operation: the frame of one call *)

DefaultMaxRetries == 3
DefaultDelay == 2

\* entry of the call: `for attempt in range(max_retries)`; an empty range
\* falls off the end of the function, which returns None
RetryStart(max_retries, delay) ==
    [max_retries |-> max_retries, delay |-> delay, attempt |-> 0,
     calls |-> 0, waited |-> 0, waits |-> <<>>,
     result |-> IF max_retries > 0 THEN "running" ELSE "none"]

\* (faulty variant) the comparison against max_retries instead of max_retries - 1
RetryAgainLate(attempt, max_retries) == attempt < max_retries

\* `if attempt < max_retries - 1`: sleep and go round again, else re-raise
RetryAgain(attempt, max_retries) == attempt < max_retries - 1

\* (faulty variant) the exponent one too high
WaitTimeNext(delay, attempt) == delay * (2 ^ (attempt + 1))

\* wait_time = delay * (2 ** attempt)
WaitTime(delay, attempt) == delay * (2 ^ attempt)

\* one iteration of the loop body; ok says whether operation_func() returned
RetryStep(f, ok) ==
    IF ok
    THEN [f EXCEPT !.calls = @ + 1, !.result = "returned"]
    ELSE IF RetryAgain(f.attempt, f.max_retries)
         THEN [f EXCEPT !.calls = @ + 1,
                        !.waited = @ + WaitTime(f.delay, f.attempt),
                        !.waits = Append(@, WaitTime(f.delay, f.attempt)),
                        !.attempt = @ + 1,
                        \* range(max_retries) exhausted: the function ends
                        !.result = IF f.attempt + 1 < f.max_retries
                                   THEN "running" ELSE "none"]
         ELSE [f EXCEPT !.calls = @ + 1, !.result = "raised"]

\* the whole call for an operation that fails its first nFail invocations
RECURSIVE RetryLoop(_, _)
RetryLoop(f, nFail) ==
    IF f.result # "running" THEN f
    ELSE RetryLoop(RetryStep(f, f.calls >= nFail), nFail)

\* retry_supabase_operation(op) with the default arguments
RetryRun(nFail) == RetryLoop(RetryStart(DefaultMaxRetries, DefaultDelay), nFail)

\* the failure patterns of one store operation: it fails nFail times first
Failures == 0..DefaultMaxRetries

----------------------------------------------------------------------------
(* Usage counter: gemini_usage.txt *)

NoRecord == [date |-> 0, count |-> 0]

\* (faulty variant) the stored date is not compared
GetUsageCountAnyDay(file, day) == file.count

\* (faulty variant) the date comparison never matches
GetUsageCountNever(file, day) == 0

\* get_gemini_usage_count
GetUsageCount(file, day) ==
    IF file # NoRecord /\ file.date = day THEN file.count ELSE 0

\* line 63: the two lines written, f"{today}\\n{new_count}\\n"
UsageRecord(day, new_count) == [date |-> day, count |-> new_count]

\* increment_gemini_usage_count: the record it writes
IncrementUsage(file, day) == [date |-> day, count |-> GetUsageCount(file, day) + 1]

----------------------------------------------------------------------------
(* process_pending_video, lines 116-152: the summary fields of one element
   of reports_array.  [raised |-> TRUE] stands for the AttributeError /
   TypeError Python raises on a value of the wrong type. *)

AllowedVerdicts == {S_pass, S_fail, S_not_assigned, S_pending}

\* (faulty variant) no final validation of the verdict
CoerceNone(v) == v

\* `if verdict_value not in allowed_verdicts: verdict_value = 'fail'`
CoerceVerdict(v) == IF v \notin AllowedVerdicts THEN S_fail ELSE v

\* the entries of basic_tests that are dicts with a 'result' key
ResultEntries(basic_tests) ==
    SelectSeq(basic_tests.kv, LAMBDA e : IsDict(e[2]) /\ HasKey(e[2], "result"))

\* test_results: test_data['result'].strip().lower() of each such entry
TestResults(basic_tests) ==
    LET es == ResultEntries(basic_tests)
    IN  [j \in 1..Len(es) |-> Lower(Strip(DictGet(es[j][2], "result", JNull).s))]

\* (faulty variant) any() in place of all()
AnyPassed(test_results) == \E j \in 1..Len(test_results) : test_results[j] = S_passed

\* `all(result == 'passed' for result in test_results)`
AllPassed(test_results) == \A j \in 1..Len(test_results) : test_results[j] = S_passed

\* lines 129-152
DeriveVerdict(report_json) ==
    LET basic_tests == DictGet(report_json, "basic_tests", JObj(<<>>))
    IN  IF ~Truthy(basic_tests) THEN [raised |-> FALSE, verdict |-> CoerceVerdict(S_fail)]
        ELSE IF ~IsDict(basic_tests) THEN [raised |-> TRUE]
        ELSE LET es == ResultEntries(basic_tests)
             IN  IF \E j \in 1..Len(es) : ~IsStr(DictGet(es[j][2], "result", JNull))
                 THEN [raised |-> TRUE]
                 ELSE IF Len(es) > 0
                 THEN [raised |-> FALSE,
                       verdict |-> CoerceVerdict(IF AllPassed(TestResults(basic_tests))
                                                 THEN S_pass ELSE S_fail)]
                 ELSE LET v == DictGet(basic_tests, "verdict", JStr(S_fail))
                      IN  IF ~IsStr(v) THEN [raised |-> TRUE]
                          ELSE [raised |-> FALSE,
                                verdict |-> CoerceVerdict(Lower(Strip(v.s)))]

\* product_info.get(key, '').strip() raises unless the value is a str
StrFieldRaises(product_info, key) == ~IsStr(DictGet(product_info, key, JStr(<<>>)))
StrField(product_info, key) == Strip(DictGet(product_info, key, JStr(<<>>)).s)

\* lines 116-126: report_json.get / product_info.get raise on a non-dict
InfoRaises(report_json) ==
    \/ ~IsDict(report_json)
    \/ LET product_info == DictGet(report_json, "product_info", JObj(<<>>))
       IN  \/ ~IsDict(product_info)
           \/ StrFieldRaises(product_info, "company_name")
           \/ StrFieldRaises(product_info, "product_name")
           \/ StrFieldRaises(product_info, "product_category")

\* lines 116-152 as a whole
DeriveFields(report_json) ==
    IF InfoRaises(report_json) THEN [raised |-> TRUE]
    ELSE LET product_info == DictGet(report_json, "product_info", JObj(<<>>))
             d == DeriveVerdict(report_json)
         IN  IF d.raised THEN [raised |-> TRUE]
             ELSE [raised |-> FALSE, verdict |-> d.verdict,
                   product_name |-> StrField(product_info, "product_name")]

\* fetch_product_image: the search is sent only for a non-empty product name
\* (the function returns None on every error)
SearchSent(report_json) ==
    /\ IsDict(report_json)
    /\ IsDict(DictGet(report_json, "product_info", JObj(<<>>)))
    /\ ~StrFieldRaises(DictGet(report_json, "product_info", JObj(<<>>)), "product_name")
    /\ StrField(DictGet(report_json, "product_info", JObj(<<>>)), "product_name") # <<>>

----------------------------------------------------------------------------
(* fetch_videos.parse_duration_to_seconds:
   re.match(r'PT(?:(\d+)H)?(?:(\d+)M)?(?:(\d+)S)?', duration) *)

Digits == <<"0", "1", "2", "3", "4", "5", "6", "7", "8", "9">>
IsDigit(c) == \E j \in 1..10 : Digits[j] = c
DigitVal(c) == (CHOOSE j \in 1..10 : Digits[j] = c) - 1

\* int() of a run of digits
RECURSIVE IntOf(_)
IntOf(ds) ==
    IF ds = <<>> THEN 0
    ELSE 10 * IntOf(SubSeq(ds, 1, Len(ds) - 1)) + DigitVal(ds[Len(ds)])

\* the position after the longest run of digits that starts at p
DigitsEnd(s, p) ==
    CHOOSE e \in p..(Len(s) + 1) :
        /\ \A j \in p..(e - 1) : IsDigit(s[j])
        /\ (e = Len(s) + 1 \/ ~IsDigit(s[e]))

\* (faulty variant) (\d) in place of (\d+)
DurationGroupOneDigit(s, p, letter) ==
    IF p + 1 <= Len(s) /\ IsDigit(s[p]) /\ s[p + 1] = letter
    THEN [val |-> DigitVal(s[p]), next |-> p + 2]
    ELSE [val |-> 0, next |-> p]

\* one optional group (?:(\d+)X)? tried at position p
DurationGroup(s, p, letter) ==
    LET e == DigitsEnd(s, p)
    IN  IF e > p /\ e <= Len(s) /\ s[e] = letter
        THEN [val |-> IntOf(SubSeq(s, p, e - 1)), next |-> e + 1]
        ELSE [val |-> 0, next |-> p]

ParseDuration(duration) ==
    IF Len(duration) < 2 \/ duration[1] # "P" \/ duration[2] # "T" THEN 0
    ELSE LET h == DurationGroup(duration, 3, "H")
             m == DurationGroup(duration, h.next, "M")
             sec == DurationGroup(duration, m.next, "S")
         IN  h.val * 3600 + m.val * 60 + sec.val

----------------------------------------------------------------------------
(* The environment: the channel's listing and the model's outputs *)

\* what the YouTube search returns (order='date': newest first), with the
\* contentDetails.duration of each video
Channel ==
    << [video_id |-> "c3", published_at |-> 3, duration |-> <<"P", "T", "3", "M", "2", "0", "S">>],
       [video_id |-> "c2", published_at |-> 2, duration |-> <<"P", "T", "1", "M", "4", "0", "S">>],
       [video_id |-> "c1", published_at |-> 1, duration |-> <<"P", "T", "5", "M">>] >>

\* elements the extraction hands to process_pending_video
E_pass ==
    JObj(<< <<"product_info", JObj(<< <<"product_name", JStr(<<"W">>)>> >>)>>,
            <<"basic_tests", JObj(<< <<"protein",
                  JObj(<< <<"result", JStr(<<"P", "a", "s", "s", "e", "d", " ">>)>> >>)>> >>)>> >>)
E_null ==
    JObj(<< <<"product_info", JObj(<<>>)>>,
            <<"basic_tests", JObj(<< <<"verdict", JStr(<<"N", "U", "L", "L">>)>> >>)>> >>)
E_bare == JObj(<<>>)
E_badinfo ==
    JObj(<< <<"product_info", JStr(<<"N", "U", "L", "L">>)>> >>)

ReportElems == <<E_pass, E_null, E_bare, E_badinfo>>

\* the non-empty lists generate_report_with_gemini can return, as indices
\* into ReportElems
RECURSIVE ListsOfLen(_)
ListsOfLen(n) ==
    IF n = 0 THEN {<<>>}
    ELSE {Append(l, e) : l \in ListsOfLen(n - 1), e \in 1..Len(ReportElems)}
ReportLists == UNION {ListsOfLen(n) : n \in 1..MaxReports}

\* how a call of generate_report_with_gemini can end without a list
GenFailures == {"client_error", "api_error", "no_content", "extract_failed", "empty_list"}

----------------------------------------------------------------------------
(* The store *)

FetchThreshold == 60
CronThreshold == 160
TopN == 3

NoVideo == [id |-> 0, retry_count |-> 0]
NoUrl == "none"

\* the row that insert_video / store_videos writes (retry_count: column default)
VideoRow(c) ==
    [video_id |-> c.video_id, published_at |-> c.published_at,
     status |-> "pending", retry_count |-> 0]

\* `if duration > threshold` over a listing
LongForm(listing, threshold) ==
    SelectSeq(listing, LAMBDA c : ParseDuration(c.duration) > threshold)

\* the first n elements of a list: `xs[:n]`
Take(xs, n) == SubSeq(xs, 1, IF Len(xs) < n THEN Len(xs) ELSE n)

\* fetch_videos.main run when the channel held its oldest n videos
Seeded(n) ==
    LET listing == SubSeq(Channel, Len(Channel) - n + 1, Len(Channel))
        kept == LongForm(listing, FetchThreshold)
    IN  [j \in 1..Len(kept) |-> VideoRow(kept[j])]

\* (faulty variant) the query without its status filter
PendingAll == 1..Len(videos)

\* .eq('status', 'pending')
Pending == {r \in 1..Len(videos) : videos[r].status = "pending"}

\* (faulty variant) ascending order
Oldest(rows) ==
    {r \in rows : \A q \in rows : videos[q].published_at >= videos[r].published_at}

\* .order('published_at', desc=True).limit(1) over a set of rows
Newest(rows) ==
    {r \in rows : \A q \in rows : videos[q].published_at <= videos[r].published_at}

\* (faulty variant) the update without the retry_count
MarkUpdatingOnly(vs, v) == [vs EXCEPT ![v.id].status = "updating"]

\* (faulty variant) the update without the status
MarkUpdatingCountOnly(vs, v) ==
    [vs EXCEPT ![v.id].retry_count = v.retry_count + 1]

\* (faulty variant) the count incremented from the stored value
MarkUpdatingStored(vs, v) ==
    [vs EXCEPT ![v.id].status = "updating", ![v.id].retry_count = @ + 1]

\* update_video_status: the update it sends
MarkUpdating(vs, v) ==
    [vs EXCEPT ![v.id].status = "updating", ![v.id].retry_count = v.retry_count + 1]

\* (faulty variant) the update without its .eq('id', video_id) filter
SetStatusAll(vs, id, status) == [r \in DOMAIN vs |-> [vs[r] EXCEPT !.status = status]]

\* update_video_completed / update_video_failed
SetStatus(vs, id, status) == [vs EXCEPT ![id].status = status]

\* (faulty variant) a handler that logs the error and writes nothing
OnRaiseLogOnly(v) == "check_new_videos"

\* lines 216-220: the handler writes failed only `if 'video_id' in locals()`
OnRaise(v) == IF v.id # 0 THEN "update_video_failed" ELSE "check_new_videos"

\* (faulty variant) the failed write outside any try: its failure leaves the function
FailedWriteEscapes == "crashed"

\* lines 226-227: a failure of the failed write is caught and logged
FailedWriteRaised == "check_new_videos"

\* (faulty variant) a failed insert re-raised to the handler of the run
InsertFailedAborts == "update_video_failed"

\* lines 179-181: a failed insert is logged and the loop goes on (`continue`)
InsertFailed == "derive"

\* (faulty variant) the result of the generation used unchecked
NoReportsUnchecked(arr) == FALSE

\* `if not reports_array or len(reports_array) == 0`
NoReports(arr) == Len(arr) = 0

\* report_id = f"{video_id}_{i}"
ReportId(video_id, i) == <<video_id, i>>

\* insert_report: the row it inserts
ReportRow(video_id, d) ==
    [video_id |-> video_id, verdict |-> d.verdict,
     image_status |-> "pending", image_url |-> NoUrl]

\* (faulty variant) the status written without the URL
ImageUpdateStatusOnly(row, url) ==
    IF url # NoUrl
    THEN [row EXCEPT !.image_status = "completed"]
    ELSE [row EXCEPT !.image_status = "failed"]

\* update_image_success / update_image_failed, chosen by `if image_url`
ImageUpdate(row, url) ==
    IF url # NoUrl
    THEN [row EXCEPT !.image_url = url, !.image_status = "completed"]
    ELSE [row EXCEPT !.image_status = "failed"]

LogInit ==
    [sel |-> 0, pre |-> 0, pend |-> {}, gen |-> "none", calls |-> 0, incs |-> 0,
     writes |-> 0, exhausted |-> {}, inserted |-> {}, skipped |-> {},
     lookups |-> {}, imgtried |-> {}, imgfail |-> {},
     derive_raised |-> FALSE, select_raised |-> FALSE,
     trail |-> <<>>, checked |-> FALSE]

RetryIdle == RetryStart(0, 0)
NoPayload == JNull
NoResult == [raised |-> FALSE, verdict |-> <<>>, product_name |-> <<>>]

\* the parts of the state a specification does not use
\* one caller of the usage counter: its position, the `today` of line 57,
\* the count get_gemini_usage_count returned to it, whether that read failed
CallerIdle == [pc |-> "idle", today |-> 0, current |-> 0, rfail |-> FALSE]
NoRead == [done |-> FALSE, val |-> 0, file |-> NoRecord, day |-> 0, failed |-> FALSE]

\* the callers of the usage counter, and what has been observed of them:
\* increments started; increments completed since the day began (n) and
\* during the day before (prev); the count the day began with (base); the
\* value the last increment returned (last_ret) and how its write went
\* (last_write); the last plain read (last_read); whether two increments
\* overlapped (overlap); whether a read or write failed or an increment
\* spanned a day change (dirty)
UsageCallers(n, base) ==
    [callers |-> n, frame |-> <<CallerIdle, CallerIdle>>, started |-> 0,
     n |-> 0, prev |-> 0, base |-> base, last_ret |-> 0, last_write |-> "none",
     last_read |-> NoRead, overlap |-> FALSE, dirty |-> FALSE]

NoText == <<>>
\* a response text with how it was written: the text, its form ("array",
\* "concat", "numbered", "raw") and the values it was written from
NoInput == [text |-> NoText, form |-> "none", reports |-> <<>>]
\* a duration string with how it was written: the text, its form ("pt",
\* "nomatch") and the hours, minutes and seconds it was written from
NoDuration == [text |-> NoText, form |-> "none", h |-> 0, m |-> 0, s |-> 0]
NoExtract == [status |-> "idle", value |-> JNull]
NoSeconds == 0 - 1

\* the frame of a process that is not inside main
NoFrame ==
    [pc |-> "idle", video |-> NoVideo, reports_array |-> <<>>, idx |-> 0,
     image_url |-> NoUrl, log |-> LogInit]
\* the second process before it ran: its frame idle, no run suspended and the
\* scheduler has not switched so far
NoPeer == [frame |-> NoFrame, suspended |-> FALSE, switches |-> 0]

UnitIdle ==
    /\ uc = UsageCallers(0, 0)
    /\ xin = NoInput
    /\ xout = NoExtract
    /\ din = NoDuration
    /\ dout = NoSeconds
    /\ xtext = NoText
    /\ peer = NoPeer

Idle ==
    /\ retry = RetryIdle
    /\ ophist = <<>>
    /\ vin = NoPayload
    /\ vout = NoResult
    /\ UnitIdle

EmptyStore ==
    /\ videos = <<>>
    /\ reports = <<>>
    /\ usage = NoRecord
    /\ today = 1
    /\ video = NoVideo
    /\ reports_array = <<>>
    /\ idx = 0
    /\ image_url = NoUrl
    /\ runs = 0
    /\ log = LogInit
    /\ channel = <<>>

Init ==
    /\ \E n \in 0..Len(Channel) : videos = Seeded(n)
    /\ reports = <<>>
    /\ usage = NoRecord
    /\ today = 1
    /\ pc = "idle"
    /\ video = NoVideo
    /\ reports_array = <<>>
    /\ idx = 0
    /\ image_url = NoUrl
    /\ runs = 0
    /\ log = LogInit
    /\ channel = Channel
    /\ Idle

----------------------------------------------------------------------------
(* main and process_pending_video *)

\* main, lines 672-686: shows the usage count and calls process_pending_video
MainStart ==
    /\ pc = "idle"
    /\ runs < MaxRuns
    /\ runs' = runs + 1
    /\ log' = LogInit
    /\ pc' = "select"
    /\ UNCHANGED <<storeVars, reports, localVars, auxVars>>

\* lines 82-92
Select ==
    /\ pc = "select"
    /\ \/ /\ log' = [log EXCEPT !.select_raised = TRUE]
          /\ pc' = OnRaise(video)
          /\ UNCHANGED video
       \/ /\ Pending = {}
          /\ pc' = "check_new_videos"
          /\ UNCHANGED <<video, log>>
       \/ \E r \in Newest(Pending) :
             /\ video' = [id |-> r, retry_count |-> videos[r].retry_count]
             /\ log' = [log EXCEPT
                          !.sel = r, !.pre = videos[r].retry_count,
                          !.pend = {q \in 1..Len(videos) : videos[q].status = "pending"}]
             /\ pc' = "update_video_status"
    /\ UNCHANGED <<storeVars, reports, reports_array, idx, image_url, runs, auxVars>>

\* lines 94-102
UpdateVideoStatus ==
    /\ pc = "update_video_status"
    /\ \E nFail \in Failures :
          IF RetryRun(nFail).result = "returned"
          THEN /\ videos' = MarkUpdating(videos, video)
               /\ log' = [log EXCEPT !.writes = @ + 1, !.trail = Append(@, "updating")]
               /\ pc' = "generate_report_with_gemini"
          ELSE /\ log' = [log EXCEPT !.writes = @ + 1, !.exhausted = @ \cup {"updating"}]
               /\ pc' = OnRaise(video)
               /\ UNCHANGED videos
    /\ UNCHANGED <<reports, usage, today, localVars, runs, auxVars>>

\* (faulty variant) the usage is counted after the model call returned
ReachesRequestOnSuccess(out) == out \notin {"client_error", "api_error"}

\* generate_report_with_gemini, lines 234-321: the increment of line 321 is
\* reached unless the client, the Part or the config raised before it (the
\* handler of line 498 then returns None); every other outcome follows it
ReachesRequest(out) == out # "client_error"

\* lines 104-111, with generate_report_with_gemini as the environment sees it
Generate ==
    /\ pc = "generate_report_with_gemini"
    /\ \E out \in GenFailures \cup {"ok"} :
          /\ IF out = "ok" THEN reports_array' \in ReportLists ELSE reports_array' = <<>>
          /\ usage' = IF ReachesRequest(out) THEN IncrementUsage(usage, today) ELSE usage
          /\ log' = [log EXCEPT !.gen = out,
                                !.calls = @ + (IF ReachesRequest(out) THEN 1 ELSE 0),
                                !.incs = @ + (IF ReachesRequest(out) THEN 1 ELSE 0)]
          /\ pc' = IF NoReports(reports_array') THEN OnRaise(video) ELSE "derive"
    /\ idx' = 0
    /\ UNCHANGED <<videos, reports, today, video, image_url, runs, auxVars>>

\* lines 114-158: the head of the report loop and the summary fields
Derive ==
    /\ pc = "derive"
    /\ IF idx >= Len(reports_array)
       THEN /\ pc' = "update_video_completed"
            /\ UNCHANGED log
       ELSE IF DeriveFields(ReportElems[reports_array[idx + 1]]).raised
       THEN /\ pc' = OnRaise(video)
            /\ log' = [log EXCEPT !.derive_raised = TRUE]
       ELSE /\ pc' = "insert_report"
            /\ UNCHANGED log
    /\ UNCHANGED <<storeVars, reports, localVars, runs, auxVars>>

\* lines 160-181; the id is the key of the reports collection, and the insert
\* of an id that is already stored raises at every attempt
InsertReport ==
    /\ pc = "insert_report"
    /\ \E nFail \in Failures :
          IF /\ RetryRun(nFail).result = "returned"
             /\ ReportId(video.id, idx) \notin DOMAIN reports
          THEN /\ reports' = reports @@
                      (ReportId(video.id, idx) :>
                          ReportRow(video.id, DeriveFields(ReportElems[reports_array[idx + 1]])))
               /\ log' = [log EXCEPT !.writes = @ + 1, !.inserted = @ \cup {idx}]
               /\ pc' = "fetch_product_image"
               /\ UNCHANGED idx
          ELSE /\ log' = [log EXCEPT !.writes = @ + 1, !.skipped = @ \cup {idx}]
               /\ pc' = InsertFailed
               /\ idx' = idx + 1
               /\ UNCHANGED reports
    /\ UNCHANGED <<storeVars, video, reports_array, image_url, runs, auxVars>>

\* lines 183-185 and fetch_product_image
FetchProductImage ==
    /\ pc = "fetch_product_image"
    /\ image_url' \in (IF SearchSent(ReportElems[reports_array[idx + 1]])
                       THEN {NoUrl, "img"} ELSE {NoUrl})
    /\ log' = [log EXCEPT !.lookups = @ \cup {idx}]
    /\ pc' = "update_image"
    /\ UNCHANGED <<storeVars, reports, video, reports_array, idx, runs, auxVars>>

\* lines 187-205
UpdateImage ==
    /\ pc = "update_image"
    /\ \E nFail \in Failures :
          IF RetryRun(nFail).result = "returned"
          THEN /\ reports' = [reports EXCEPT ![ReportId(video.id, idx)] =
                                                 ImageUpdate(@, image_url)]
               /\ log' = [log EXCEPT !.writes = @ + 1, !.imgtried = @ \cup {idx}]
          ELSE /\ log' = [log EXCEPT !.writes = @ + 1, !.imgtried = @ \cup {idx},
                                     !.imgfail = @ \cup {idx}]
               /\ UNCHANGED reports
    /\ pc' = "derive"
    /\ idx' = idx + 1
    /\ UNCHANGED <<storeVars, video, reports_array, image_url, runs, auxVars>>

\* lines 207-214
UpdateVideoCompleted ==
    /\ pc = "update_video_completed"
    /\ \E nFail \in Failures :
          IF RetryRun(nFail).result = "returned"
          THEN /\ videos' = SetStatus(videos, video.id, "completed")
               /\ log' = [log EXCEPT !.writes = @ + 1, !.trail = Append(@, "completed")]
               /\ pc' = "check_new_videos"
          ELSE /\ log' = [log EXCEPT !.writes = @ + 1, !.exhausted = @ \cup {"completed"}]
               /\ pc' = OnRaise(video)
               /\ UNCHANGED videos
    /\ UNCHANGED <<reports, usage, today, localVars, runs, auxVars>>

\* lines 216-227
UpdateVideoFailed ==
    /\ pc = "update_video_failed"
    /\ \E nFail \in Failures :
          IF RetryRun(nFail).result = "returned"
          THEN /\ videos' = SetStatus(videos, video.id, "failed")
               /\ log' = [log EXCEPT !.writes = @ + 1, !.trail = Append(@, "failed")]
               /\ pc' = "check_new_videos"
          ELSE /\ log' = [log EXCEPT !.writes = @ + 1, !.exhausted = @ \cup {"failed"}]
               /\ pc' = FailedWriteRaised
               /\ UNCHANGED videos
    /\ UNCHANGED <<reports, usage, today, localVars, runs, auxVars>>

----------------------------------------------------------------------------
(* check_new_videos *)

DbLimit == 3
\* line 583: maxResults=10
SearchMax == 10

\* .order('published_at', desc=True).limit(n): the sets of rows it can return
DbLatest(n) ==
    {T \in SUBSET (1..Len(videos)) :
        /\ Cardinality(T) = (IF Len(videos) < n THEN Len(videos) ELSE n)
        /\ \A r \in T : \A q \in (1..Len(videos)) \ T :
              videos[q].published_at <= videos[r].published_at}

\* lines 580-640: of the videos the search lists (at most SearchMax), the
\* long-form ones among the first TopN that the rows read from the store do
\* not name
NewVideos(db_rows) ==
    SelectSeq(Take(LongForm(Take(channel, SearchMax), CronThreshold), TopN),
              LAMBDA c : c.video_id \notin {videos[r].video_id : r \in db_rows})

\* lines 645-658: the rows added when insert j fails nf[j] times first
Inserted(new_videos, nf) ==
    LET ok == SelectSeq([j \in 1..Len(new_videos) |-> j],
                        LAMBDA j : RetryRun(nf[j]).result = "returned")
    IN  [k \in 1..Len(ok) |-> VideoRow(new_videos[ok[k]])]

CheckNewVideos ==
    /\ pc = "check_new_videos"
    /\ \/ UNCHANGED videos   \* an error before the inserts, caught at line 662
       \/ \E T \in DbLatest(DbLimit) :
             \E nf \in [1..Len(NewVideos(T)) -> Failures] :
                videos' = videos \o Inserted(NewVideos(T), nf)
    /\ pc' = "idle"
    /\ video' = NoVideo
    /\ reports_array' = <<>>
    /\ idx' = 0
    /\ image_url' = NoUrl
    /\ log' = [log EXCEPT !.checked = TRUE]
    /\ UNCHANGED <<reports, usage, today, runs, auxVars>>

Next ==
    \/ MainStart
    \/ Select
    \/ UpdateVideoStatus
    \/ Generate
    \/ Derive
    \/ InsertReport
    \/ FetchProductImage
    \/ UpdateImage
    \/ UpdateVideoCompleted
    \/ UpdateVideoFailed
    \/ CheckNewVideos

Spec == Init /\ [][Next]_vars

----------------------------------------------------------------------------
(* Two processes running main, one scheduled at a time: the runs can follow
   one another or overlap *)

MaxSwitches == 2

\* the frame of the scheduled process
Frame ==
    [pc |-> pc, video |-> video, reports_array |-> reports_array, idx |-> idx,
     image_url |-> image_url, log |-> log]

\* the scheduler takes the process off and puts the other one on; a run is
\* suspended when this happens inside main
Switch ==
    /\ peer.frame # Frame
    /\ peer.switches < MaxSwitches
    /\ peer' = [frame |-> Frame, suspended |-> peer.suspended \/ pc # "idle",
                switches |-> peer.switches + 1]
    /\ pc' = peer.frame.pc
    /\ video' = peer.frame.video
    /\ reports_array' = peer.frame.reports_array
    /\ idx' = peer.frame.idx
    /\ image_url' = peer.frame.image_url
    /\ log' = peer.frame.log
    /\ UNCHANGED <<storeVars, reports, runs, retry, ophist, vin, vout, uc, xin,
                   xout, din, dout, xtext, channel>>

\* the store holds the one Video fetch_videos.main found, pending
InitOverlap ==
    /\ Init
    /\ videos = Seeded(1)

NextOverlap == Next \/ Switch

SpecOverlap == InitOverlap /\ [][NextOverlap]_vars

----------------------------------------------------------------------------
(* Discovery on its own: the channel publishes videos, fetch_videos.main
   stores the channel's long-form videos, and check_new_videos adds the new
   ones.  process_pending_video is left out: it never inserts or deletes a
   Video. *)

MaxUploads == 4
MaxDiscoveries == 2

\* durations of 45, 100 and 200 seconds
UploadDurations ==
    { <<"P", "T", "4", "5", "S">>,
      <<"P", "T", "1", "M", "4", "0", "S">>,
      <<"P", "T", "3", "M", "2", "0", "S">> }

InitDiscovery ==
    /\ EmptyStore
    /\ pc = "idle"
    /\ Idle

\* the channel publishes a video, the n-th with video id n: the search lists
\* it first (order='date')
Upload ==
    /\ pc = "idle"
    /\ Len(channel) < MaxUploads
    /\ \E d \in UploadDurations :
          channel' = << [video_id |-> Len(channel) + 1,
                        published_at |-> Len(channel) + 1,
                        duration |-> d] >> \o channel
    /\ UNCHANGED <<storeVars, reports, pc, localVars, runs, log, retry, ophist,
                   vin, vout, uc, xin, xout, din, dout, xtext, peer>>

\* fetch_videos.py lines 130-160: the rows store_videos adds for the videos
\* fetch_all_videos kept, when the inserts numbered in ok succeed (a failed
\* insert is logged and the loop goes on)
Stored(listing, ok) ==
    LET kept == LongForm(listing, FetchThreshold)
        done == SelectSeq([j \in 1..Len(kept) |-> j], LAMBDA j : j \in ok)
    IN  [k \in 1..Len(done) |-> VideoRow(kept[done[k]])]

\* fetch_videos.main, lines 162-181
StoreVideos ==
    /\ pc = "idle"
    /\ runs < MaxDiscoveries
    /\ runs' = runs + 1
    /\ \E ok \in SUBSET (1..Len(LongForm(channel, FetchThreshold))) :
          videos' = videos \o Stored(channel, ok)
    /\ UNCHANGED <<reports, usage, today, pc, localVars, log, auxVars>>

\* main, line 689: check_new_videos is called
CheckCall ==
    /\ pc = "idle"
    /\ runs < MaxDiscoveries
    /\ runs' = runs + 1
    /\ pc' = "check_new_videos"
    /\ UNCHANGED <<storeVars, reports, localVars, log, auxVars>>

NextDiscovery ==
    \/ Upload
    \/ StoreVideos
    \/ CheckCall
    \/ CheckNewVideos

SpecDiscovery == InitDiscovery /\ [][NextDiscovery]_vars

----------------------------------------------------------------------------
(* retry_supabase_operation on its own: any max_retries and delay, and an
   operation that returns or raises at each invocation *)

InitRetry ==
    /\ EmptyStore
    /\ pc = "call_retry"
    /\ retry = RetryIdle
    /\ ophist = <<>>
    /\ vin = NoPayload
    /\ vout = NoResult
    /\ UnitIdle

\* line 11: the call, with its arguments
RetryCall ==
    /\ pc = "call_retry"
    /\ \E m \in 0..MaxRetriesArg : \E d \in 1..MaxDelayArg : retry' = RetryStart(m, d)
    /\ pc' = "retry_supabase_operation"
    /\ UNCHANGED <<storeVars, reports, localVars, runs, log, ophist, vin, vout, unitVars>>

\* line 17: operation_func() returns
OpReturns ==
    /\ pc = "retry_supabase_operation"
    /\ retry.result = "running"
    /\ retry' = RetryStep(retry, TRUE)
    /\ ophist' = Append(ophist, "ok")
    /\ UNCHANGED <<storeVars, reports, pc, localVars, runs, log, vin, vout, unitVars>>

\* lines 18-26: operation_func() raises
OpRaises ==
    /\ pc = "retry_supabase_operation"
    /\ retry.result = "running"
    /\ retry' = RetryStep(retry, FALSE)
    /\ ophist' = Append(ophist, "fail")
    /\ UNCHANGED <<storeVars, reports, pc, localVars, runs, log, vin, vout, unitVars>>

NextRetry == RetryCall \/ OpReturns \/ OpRaises

SpecRetry == InitRetry /\ [][NextRetry]_vars

----------------------------------------------------------------------------
(* The verdict derivation on its own, over a family of report payloads *)

\* values of a sub-test's 'result'
ResultTexts ==
    << S_passed,
       <<" ", "P", "a", "s", "s", "e", "d">>,
       <<"P", "A", "S", "S", "E", "D", "\n">>,
       <<"f", "a", "i", "l", "e", "d">>,
       S_pass >>

\* values of basic_tests['verdict']
VerdictTexts ==
    << S_pass,
       <<"P", "e", "n", "d", "i", "n", "g", " ">>,
       <<"N", "o", "t", " ", "A", "s", "s", "i", "g", "n", "e", "d">>,
       <<"N", "U", "L", "L">>,
       S_passed >>

\* one entry of basic_tests: a test with a result text, a test without a
\* 'result' key, a test whose result is null, or a value that is no dict
\* (kinds 1..Len(ResultTexts) are the texts; the three others follow them)
KindNoResult == Len(ResultTexts) + 1
KindNullResult == Len(ResultTexts) + 2
KindNoDict == Len(ResultTexts) + 3
TestKinds == 1..KindNoDict

TestValue(kind) ==
    CASE kind = KindNoResult -> JObj(<< <<"verdict", JStr(S_pass)>> >>)
      [] kind = KindNullResult -> JObj(<< <<"result", JNull>> >>)
      [] kind = KindNoDict -> JStr(<<"N", "U", "L", "L">>)
      [] OTHER -> JObj(<< <<"result", JStr(ResultTexts[kind])>> >>)

TestKeys == <<"t1", "t2", "t3", "t4">>

RECURSIVE KindLists(_)
KindLists(n) ==
    IF n = 0 THEN {<<>>}
    ELSE {Append(l, k) : l \in KindLists(n - 1), k \in TestKinds}

\* the 'verdict' entry of basic_tests: absent (0), a text, or null
VerdictKinds == 0..(Len(VerdictTexts) + 1)

VerdictEntry(vk) ==
    IF vk = 0 THEN <<>>
    ELSE IF vk = Len(VerdictTexts) + 1 THEN << <<"verdict", JNull>> >>
    ELSE << <<"verdict", JStr(VerdictTexts[vk])>> >>

\* a report whose basic_tests holds the tests `kinds` and the verdict entry vk
Payload(kinds, vk) ==
    JObj(<< <<"product_info", JObj(<<>>)>>,
            <<"basic_tests",
              JObj([j \in 1..Len(kinds) |-> <<TestKeys[j], TestValue(kinds[j])>>]
                   \o VerdictEntry(vk))>> >>)

\* reports without a usable basic_tests: absent, null, empty text, a text
OddPayloads ==
    << JObj(<<>>),
       JObj(<< <<"basic_tests", JNull>> >>),
       JObj(<< <<"basic_tests", JStr(<<>>)>> >>),
       JObj(<< <<"basic_tests", JStr(<<"N", "U", "L", "L">>)>> >>) >>

InitVerdict ==
    /\ EmptyStore
    /\ pc = "derive"
    /\ retry = RetryIdle
    /\ ophist = <<>>
    /\ \/ \E n \in 0..MaxTests : \E kinds \in KindLists(n) : \E vk \in VerdictKinds :
             vin = Payload(kinds, vk)
       \/ \E j \in 1..Len(OddPayloads) : vin = OddPayloads[j]
    /\ vout = NoResult
    /\ UnitIdle

\* lines 116-152 applied to vin
DeriveOne ==
    /\ pc = "derive"
    /\ vout' = DeriveFields(vin)
    /\ pc' = "derived"
    /\ UNCHANGED <<storeVars, reports, localVars, runs, log, retry, ophist, vin, unitVars>>

NextVerdict == DeriveOne

SpecVerdict == InitVerdict /\ [][NextVerdict]_vars



----------------------------------------------------------------------------
(* json.loads over texts of the alphabet used here: objects, arrays,
   strings with the escapes \" \\ \/ \n \t \r \f, integers, null, true, false,
   and the whitespace between tokens.  A result is [ok, val, next]: whether
   a value was decoded, the value, and the position after it. *)

JsonWs == {" ", "\t", "\n", "\r"}
DecodeError == [ok |-> FALSE, val |-> JNull, next |-> 0]
Decoded(v, next) == [ok |-> TRUE, val |-> v, next |-> next]

\* the character at position p; "" past the end
At(s, p) == IF p >= 1 /\ p <= Len(s) THEN s[p] ELSE ""

\* the first position from p on that holds no whitespace
SkipWs(s, p) ==
    CHOOSE q \in p..(Len(s) + 1) :
        /\ \A j \in p..(q - 1) : s[j] \in JsonWs
        /\ (q = Len(s) + 1 \/ s[q] \notin JsonWs)

\* a key of a dict is held as a string, a text as its characters
RECURSIVE Join(_)
Join(cs) == IF cs = <<>> THEN "" ELSE cs[1] \o Join(Tail(cs))
Chars(str) == [j \in 1..Len(str) |-> SubSeq(str, j, j)]

\* d[key] = value: a repeated key keeps its place and takes the last value
DictSet(kv, key, value) ==
    IF \E j \in 1..Len(kv) : kv[j][1] = key
    THEN [j \in 1..Len(kv) |-> IF kv[j][1] = key THEN <<key, value>> ELSE kv[j]]
    ELSE Append(kv, <<key, value>>)

\* the characters of a string body with its escapes resolved; ok = FALSE
\* for an escape outside the alphabet
RECURSIVE Unescaped(_, _)
Unescaped(body, acc) ==
    IF body = <<>> THEN [ok |-> TRUE, s |-> acc]
    ELSE IF body[1] # "\\" THEN Unescaped(Tail(body), Append(acc, body[1]))
    ELSE LET e == At(body, 2)
             rest == SubSeq(body, 3, Len(body))
         IN  CASE e \in {"\"", "\\", "/"} -> Unescaped(rest, Append(acc, e))
               [] e = "n" -> Unescaped(rest, Append(acc, "\n"))
               [] e = "t" -> Unescaped(rest, Append(acc, "\t"))
               [] e = "r" -> Unescaped(rest, Append(acc, "\r"))
               [] e = "f" -> Unescaped(rest, Append(acc, "\f"))
               [] OTHER -> [ok |-> FALSE, s |-> <<>>]

\* whether the character at q is escaped: an odd number of backslashes
\* stands right before it (from p on)
EscapedAt(s, p, q) ==
    LET run == CHOOSE n \in 0..(q - p) :
                   /\ \A j \in (q - n)..(q - 1) : s[j] = "\\"
                   /\ (q - n = p \/ s[q - n - 1] # "\\")
    IN  run % 2 = 1

\* a string, from the position p after its opening quote to its closing
\* quote; a raw control character inside it is an error
ScanString(s, p) ==
    IF \E q \in p..Len(s) : s[q] = "\"" /\ ~EscapedAt(s, p, q)
    THEN LET close == CHOOSE q \in p..Len(s) :
                          /\ s[q] = "\"" /\ ~EscapedAt(s, p, q)
                          /\ \A r \in p..(q - 1) : ~(s[r] = "\"" /\ ~EscapedAt(s, p, r))
             body == SubSeq(s, p, close - 1)
         IN  IF \E j \in 1..Len(body) : body[j] \in {"\n", "\t", "\r"}
             THEN DecodeError
             ELSE IF \A j \in 1..Len(body) : body[j] # "\\"
             THEN Decoded(JStr(body), close + 1)
             ELSE LET u == Unescaped(body, <<>>)
                  IN  IF u.ok THEN Decoded(JStr(u.s), close + 1) ELSE DecodeError
    ELSE DecodeError

\* an integer: -?(0|[1-9][0-9]*)
ScanNumber(s, p) ==
    LET neg == At(s, p) = "-"
        b == IF neg THEN p + 1 ELSE p
        e == IF At(s, b) = "0" THEN b + 1 ELSE DigitsEnd(s, b)
    IN  IF b > Len(s) \/ e = b THEN DecodeError
        ELSE Decoded(JNum(IF neg THEN 0 - IntOf(SubSeq(s, b, e - 1))
                          ELSE IntOf(SubSeq(s, b, e - 1))), e)

\* whether the text w stands at position p
Stands(s, p, w) ==
    /\ p + Len(w) - 1 <= Len(s)
    /\ \A j \in 1..Len(w) : s[p + j - 1] = w[j]

RECURSIVE ScanValue(_, _)
RECURSIVE ScanMembers(_, _, _)
RECURSIVE ScanElements(_, _, _)

\* the members of an object, from the opening quote of a key
ScanMembers(s, p, kv) ==
    IF At(s, p) # "\"" THEN DecodeError
    ELSE LET k == ScanString(s, p + 1)
         IN  IF ~k.ok THEN DecodeError
             ELSE LET colon == SkipWs(s, k.next)
                  IN  IF At(s, colon) # ":" THEN DecodeError
                      ELSE LET v == ScanValue(s, SkipWs(s, colon + 1))
                           IN  IF ~v.ok THEN DecodeError
                               ELSE LET t == SkipWs(s, v.next)
                                        kv2 == DictSet(kv, Join(k.val.s), v.val)
                                    IN  CASE At(s, t) = "}" -> Decoded(JObj(kv2), t + 1)
                                          [] At(s, t) = "," ->
                                               ScanMembers(s, SkipWs(s, t + 1), kv2)
                                          [] OTHER -> DecodeError

\* the elements of an array, from the start of an element
ScanElements(s, p, items) ==
    LET v == ScanValue(s, p)
    IN  IF ~v.ok THEN DecodeError
        ELSE LET t == SkipWs(s, v.next)
                 items2 == Append(items, v.val)
             IN  CASE At(s, t) = "]" -> Decoded(JList(items2), t + 1)
                   [] At(s, t) = "," -> ScanElements(s, SkipWs(s, t + 1), items2)
                   [] OTHER -> DecodeError

\* one JSON value starting exactly at p
ScanValue(s, p) ==
    LET c == At(s, p)
    IN  CASE c = "\"" -> ScanString(s, p + 1)
          [] c = "{" ->
               LET q == SkipWs(s, p + 1)
               IN  IF At(s, q) = "}" THEN Decoded(JObj(<<>>), q + 1)
                   ELSE ScanMembers(s, q, <<>>)
          [] c = "[" ->
               LET q == SkipWs(s, p + 1)
               IN  IF At(s, q) = "]" THEN Decoded(JList(<<>>), q + 1)
                   ELSE ScanElements(s, q, <<>>)
          [] c = "n" -> IF Stands(s, p, <<"n", "u", "l", "l">>)
                        THEN Decoded(JNull, p + 4) ELSE DecodeError
          [] c = "t" -> IF Stands(s, p, <<"t", "r", "u", "e">>)
                        THEN Decoded(JBool(TRUE), p + 4) ELSE DecodeError
          [] c = "f" -> IF Stands(s, p, <<"f", "a", "l", "s", "e">>)
                        THEN Decoded(JBool(FALSE), p + 5) ELSE DecodeError
          [] c = "-" \/ (c # "" /\ IsDigit(c)) -> ScanNumber(s, p)
          [] OTHER -> DecodeError

\* json.loads(text): one value, whitespace around it, nothing after it;
\* ok = FALSE stands for json.JSONDecodeError
JsonLoads(s) ==
    LET v == ScanValue(s, SkipWs(s, 1))
    IN  IF v.ok /\ SkipWs(s, v.next) = Len(s) + 1 THEN v ELSE DecodeError


----------------------------------------------------------------------------
(* generate_report_with_gemini, lines 380-496: the extraction stage.  It
   returns a list (status "list") or None (status "none"). *)

\* the backquote character (a TLA+ string cannot hold it)
Backquote == "backquote"
Fence == <<Backquote, Backquote, Backquote>>
FenceJson == Fence \o <<"j", "s", "o", "n">>

StartsWith(s, w) == Stands(s, 1, w)
EndsWith(s, w) == Len(w) <= Len(s) /\ Stands(s, Len(s) - Len(w) + 1, w)
Drop(s, n) == SubSeq(s, n + 1, Len(s))

\* lines 381-388
StripFences(response_text) ==
    LET a == IF StartsWith(response_text, FenceJson) THEN Drop(response_text, 7)
             ELSE response_text
        b == IF StartsWith(a, Fence) THEN Drop(a, 3) ELSE a
        c == IF EndsWith(b, Fence) THEN SubSeq(b, 1, Len(b) - 3) ELSE b
    IN  Strip(c)

ReturnsList(items) == [status |-> "list", value |-> JList(items)]
ReturnsNone == [status |-> "none", value |-> JNull]

\* str.isdigit() over this alphabet
IsDigitKey(k) == Len(k) > 0 /\ \A j \in 1..Len(k) : IsDigit(Chars(k)[j])

\* the characters of the alphabet, in code point order
CharOrder ==
    <<"\t", "\n", "\r", " ", "\"", ",", "-", "/", "0", "1", "2", "3", "4",
      "5", "6", "7", "8", "9", ":", "A", "B", "C", "D", "E", "F", "G", "H",
      "I", "J", "K", "L", "M", "N", "O", "P", "Q", "R", "S", "T", "U", "V",
      "W", "X", "Y", "Z", "[", "\\", "]", "_", Backquote, "a", "b", "c",
      "d", "e", "f", "g", "h", "i", "j", "k", "l", "m", "n", "o", "p", "q",
      "r", "s", "t", "u", "v", "w", "x", "y", "z", "{", "}">>
CharCode(c) == CHOOSE j \in 1..Len(CharOrder) : CharOrder[j] = c

\* a < b for two str: the order sorted() uses without a key
StrLess(a, b) ==
    LET x == Chars(a)
        y == Chars(b)
    IN  \E k \in 1..Len(y) :
           /\ k - 1 <= Len(x)
           /\ \A j \in 1..(k - 1) : x[j] = y[j]
           /\ (k > Len(x) \/ CharCode(x[k]) < CharCode(y[k]))

\* sorted(): a stable sort; less[i][j] says that q[i] orders before q[j]
SortedBy(q, less) ==
    LET n == Len(q)
        rank(i) == 1 + Cardinality({j \in 1..n :
                          \/ less[j][i]
                          \/ (~less[i][j] /\ j < i)})
    IN  [r \in 1..n |-> q[CHOOSE i \in 1..n : rank(i) = r]]

\* the order of str, as sorted() uses it without a key
TextOrder(q) == [i \in 1..Len(q) |-> [j \in 1..Len(q) |-> StrLess(q[i], q[j])]]

Keys(d) == [j \in 1..Len(d.kv) |-> d.kv[j][1]]

\* (faulty variant) sorted(product_keys) without key=int
NumberedOrderText(product_keys) == SortedBy(product_keys, TextOrder(product_keys))

\* line 421: sorted(product_keys, key=int)
NumberedOrder(product_keys) ==
    SortedBy(product_keys,
             [i \in 1..Len(product_keys) |-> [j \in 1..Len(product_keys) |->
                 IntOf(Chars(product_keys[i])) < IntOf(Chars(product_keys[j]))]])

\* lines 407-413 and 438-440: an array is returned as it is; the debug line
\* 408 calls .keys() on its first element, and the AttributeError of an
\* element that is no dict is caught at line 493
ArrayResult(items) ==
    IF Len(items) > 0 /\ ~IsDict(items[1]) THEN ReturnsNone
    ELSE ReturnsList(items)

\* lines 400-440: what is made of the value json.loads decoded
ExtractParsed(parsed) ==
    IF IsDict(parsed)
    THEN LET product_keys == SelectSeq(Keys(parsed), IsDigitKey)
         IN  IF Len(product_keys) > 0
             THEN LET ks == NumberedOrder(product_keys)
                  IN  ReturnsList([j \in 1..Len(ks) |-> DictGet(parsed, ks[j], JNull)])
             ELSE IF HasKey(parsed, "products")
                     /\ IsDict(DictGet(parsed, "products", JNull))
             THEN LET products_obj == DictGet(parsed, "products", JNull)
                      ks == SortedBy(Keys(products_obj), TextOrder(Keys(products_obj)))
                  IN  ReturnsList([j \in 1..Len(ks) |-> DictGet(products_obj, ks[j], JNull)])
             ELSE ReturnsList(<<parsed>>)
    ELSE IF parsed.t = "list"
    THEN ArrayResult(parsed.items)
    \* neither a dict nor a list: no branch returns, the function ends
    ELSE ReturnsNone

\* response_text.find('{', current_pos): 0 when there is none
FindBrace(s, from) ==
    IF \E j \in from..Len(s) : s[j] = "{"
    THEN CHOOSE j \in from..Len(s) : s[j] = "{" /\ \A k \in from..(j - 1) : s[k] # "{"
    ELSE 0

\* brace_count after the character at i, counting from start_pos
BraceCount(s, start_pos, i) ==
    Cardinality({k \in start_pos..i : s[k] = "{"})
        - Cardinality({k \in start_pos..i : s[k] = "}"})

\* (faulty variant) the span ends at the first "}", whatever the depth
BraceEndFirst(s, start_pos) ==
    IF \E i \in start_pos..Len(s) : s[i] = "}"
    THEN 1 + CHOOSE i \in start_pos..Len(s) :
                 s[i] = "}" /\ \A k \in start_pos..(i - 1) : s[k] # "}"
    ELSE 0

\* lines 459-468: the position after the first "}" at which brace_count is
\* back to 0; 0 when the text ends first (brace_count != 0)
BraceEnd(s, start_pos) ==
    IF \E i \in start_pos..Len(s) : s[i] = "}" /\ BraceCount(s, start_pos, i) = 0
    THEN 1 + CHOOSE i \in start_pos..Len(s) :
                 /\ s[i] = "}" /\ BraceCount(s, start_pos, i) = 0
                 /\ \A k \in start_pos..(i - 1) :
                       ~(s[k] = "}" /\ BraceCount(s, start_pos, k) = 0)
    ELSE 0

\* lines 449-491: the objects found one after the other by balancing braces
RECURSIVE SplitObjects(_, _, _)
SplitObjects(s, current_pos, json_objects) ==
    LET done == IF json_objects # <<>> THEN ReturnsList(json_objects) ELSE ReturnsNone
        start_pos == FindBrace(s, current_pos)
    IN  IF current_pos > Len(s) \/ start_pos = 0 THEN done
        ELSE LET end_pos == BraceEnd(s, start_pos)
             IN  IF end_pos = 0 THEN done
                 ELSE LET parsed_obj == JsonLoads(Strip(SubSeq(s, start_pos, end_pos - 1)))
                      IN  IF ~parsed_obj.ok THEN done
                          ELSE SplitObjects(s, end_pos, Append(json_objects, parsed_obj.val))

\* line 354 (response.text.strip()) and lines 380-496
Extract(response_text) ==
    LET text == StripFences(Strip(response_text))
        whole == JsonLoads(text)
    IN  IF whole.ok THEN ExtractParsed(whole.val)
        ELSE SplitObjects(text, 1, <<>>)


----------------------------------------------------------------------------
(* The extraction stage on its own, over a family of response texts *)

MaxListed == 2

\* the decimal digits of a natural number
RECURSIVE IntText(_)
IntText(n) ==
    IF n < 10 THEN <<Digits[n + 1]>>
    ELSE IntText(n \div 10) \o <<Digits[(n % 10) + 1]>>

\* the body of a JSON string: quote, backslash and newline escaped
RECURSIVE Escaped(_)
Escaped(cs) ==
    IF cs = <<>> THEN <<>>
    ELSE (CASE cs[1] = "\"" -> <<"\\", "\"">>
            [] cs[1] = "\\" -> <<"\\", "\\">>
            [] cs[1] = "\n" -> <<"\\", "n">>
            [] OTHER -> <<cs[1]>>) \o Escaped(Tail(cs))

Quoted(cs) == <<"\"">> \o Escaped(cs) \o <<"\"">>

\* a JSON value written as text, with ", " and ": " as separators
RECURSIVE Dumps(_)
RECURSIVE DumpsItems(_, _)
RECURSIVE DumpsMembers(_, _)
DumpsItems(items, j) ==
    IF j > Len(items) THEN <<>>
    ELSE (IF j > 1 THEN <<",", " ">> ELSE <<>>)
         \o Dumps(items[j]) \o DumpsItems(items, j + 1)
DumpsMembers(kv, j) ==
    IF j > Len(kv) THEN <<>>
    ELSE (IF j > 1 THEN <<",", " ">> ELSE <<>>)
         \o Quoted(Chars(kv[j][1])) \o <<":", " ">> \o Dumps(kv[j][2])
         \o DumpsMembers(kv, j + 1)
Dumps(v) ==
    CASE v.t = "str" -> Quoted(v.s)
      [] v.t = "num" -> IF v.n < 0 THEN <<"-">> \o IntText(0 - v.n) ELSE IntText(v.n)
      [] v.t = "null" -> <<"n", "u", "l", "l">>
      [] v.t = "bool" -> IF v.b THEN <<"t", "r", "u", "e">> ELSE <<"f", "a", "l", "s", "e">>
      [] v.t = "obj" -> <<"{">> \o DumpsMembers(v.kv, 1) \o <<"}">>
      [] v.t = "list" -> <<"[">> \o DumpsItems(v.items, 1) \o <<"]">>

\* objects written one after the other, sep between them
RECURSIVE Concatenated(_, _)
Concatenated(items, sep) ==
    IF items = <<>> THEN <<>>
    ELSE IF Len(items) = 1 THEN Dumps(items[1])
    ELSE Dumps(items[1]) \o sep \o Concatenated(Tail(items), sep)

\* report mappings: nested, flat, and with braces inside string values
R_name(name) == JObj(<< <<"product_info", JObj(<< <<"product_name", JStr(name)>> >>)>> >>)
ReportPool ==
    << E_pass,
       R_name(<<"W">>),
       R_name(<<"A", "}">>),
       R_name(<<"{", "B">>),
       R_name(<<"a", "{", "b", "}">>),
       JObj(<< <<"verdict", JStr(<<"p", "a", "s", "s">>)>>, <<"score", JNum(7)>> >>) >>

RECURSIVE PoolLists(_)
PoolLists(n) ==
    IF n = 0 THEN {<<>>}
    ELSE {Append(l, ReportPool[j]) : l \in PoolLists(n - 1), j \in 1..Len(ReportPool)}

ArrayInputs ==
    {[text |-> Dumps(JList(l)), form |-> "array", reports |-> l] :
        l \in UNION {PoolLists(n) : n \in 0..MaxListed}}

ConcatInputs ==
    {[text |-> Concatenated(l, sep), form |-> "concat", reports |-> l] :
        l \in UNION {PoolLists(n) : n \in 1..MaxListed}, sep \in {<<>>, <<"\n">>}}

\* a top-level mapping with numbered keys, in every order of appearance; the
\* value of key k is {"id": k}
NumberedKeys == {"1", "2", "10", "02"}
RECURSIVE KeyOrders(_)
KeyOrders(n) ==
    IF n = 0 THEN {<<>>}
    ELSE {Append(l, k) : l \in KeyOrders(n - 1), k \in NumberedKeys}
Distinct(l) == \A i, j \in 1..Len(l) : i # j => l[i] # l[j]
Numbered(k) == JObj(<< <<"id", JStr(Chars(k))>> >>)
NumberedInputs ==
    {[text |-> Dumps(JObj([j \in 1..Len(l) |-> <<l[j], Numbered(l[j])>>])),
      form |-> "numbered",
      reports |-> [j \in 1..Len(l) |-> Numbered(l[j])]] :
        l \in {o \in UNION {KeyOrders(n) : n \in 1..3} : Distinct(o)}}

\* other texts a model can answer with
RawTexts ==
    { <<>>,
      <<"[", "]">>,
      <<"{", "}">>,
      <<"7">>,
      <<"n", "u", "l", "l">>,
      <<"\"", "W", "\"">>,
      <<"[", "{", "}", ",", "1", "]">>,
      <<"[", "1", ",", "{", "}", "]">>,
      <<"{", "\"", "1", "\"", ":", "5", "}">>,
      <<"{", "\"", "1", "\"", ":", "{", "}", ",", "\"", "a", "\"", ":", "{", "}", "}">>,
      <<"{", "\"", "p", "r", "o", "d", "u", "c", "t", "s", "\"", ":", "{", "}", "}">>,
      <<"{", "\"", "p", "r", "o", "d", "u", "c", "t", "s", "\"", ":", "{",
        "\"", "b", "\"", ":", "{", "}", ",", "\"", "a", "\"", ":", "1", "}", "}">>,
      <<"{", "\"", "a", "\"", ":", "1", "}", "x">>,
      <<"{", "\"", "a", "\"", ":", "1", "}", "{", "\"", "b", "\"", ":">>,
      <<"{", "\"", "a", "\"", ":", "1", "}", "{", "b", "}">>,
      <<"{", "\"", "a", "\"", ":", "1", ",", "}">>,
      <<"s", "o", "r", "r", "y">>,
      Fence \o <<"j", "s", "o", "n", "\n", "[", "{", "}", "]", "\n">> \o Fence,
      Fence \o <<"\n", "{", "\"", "a", "\"", ":", "1", "}", "\n">> \o Fence,
      FenceJson \o Fence,
      FenceJson \o Fence \o <<"[", "{", "}", "]">> \o Fence,
      Fence \o FenceJson \o <<"[", "{", "}", "]">>,
      <<" ", "[", "{", "}", "]", "\n">> }
RawInputs == {[text |-> t, form |-> "raw", reports |-> <<>>] : t \in RawTexts}

\* texts written as pieces one after the other, each piece an object
\* ("obj"), a balanced span that is no JSON ("bad"), an opening brace that
\* is never closed ("open"), or text without braces ("junk")
MaxPieces == 3
Piece(kind, text, value) == [kind |-> kind, text |-> text, value |-> value]
Pieces ==
    { Piece("obj", Dumps(ReportPool[2]), ReportPool[2]),
      Piece("obj", Dumps(ReportPool[6]), ReportPool[6]),
      Piece("bad", <<"{", "b", "}">>, JNull),
      Piece("bad", <<"{", "\"", "a", "\"", ":", "{", "}", ",", "}">>, JNull),
      Piece("open", <<"{", "\"", "b", "\"", ":">>, JNull),
      Piece("junk", <<"x">>, JNull),
      Piece("junk", <<",", "\n">>, JNull) }
RECURSIVE PieceLists(_)
PieceLists(n) ==
    IF n = 0 THEN {<<>>}
    ELSE {Append(l, q) : l \in PieceLists(n - 1), q \in Pieces}
RECURSIVE PiecesText(_)
PiecesText(l) == IF l = <<>> THEN <<>> ELSE l[1].text \o PiecesText(Tail(l))
PieceInputs ==
    {[text |-> PiecesText(l), form |-> "pieces", reports |-> l] :
        l \in UNION {PieceLists(n) : n \in 1..MaxPieces}}

InitExtract ==
    /\ EmptyStore
    /\ pc = "extract"
    /\ retry = RetryIdle
    /\ ophist = <<>>
    /\ vin = NoPayload
    /\ vout = NoResult
    /\ uc = UsageCallers(0, 0)
    /\ xin \in ArrayInputs \cup ConcatInputs \cup NumberedInputs \cup RawInputs
                \cup PieceInputs
    /\ xout = NoExtract
    /\ din = NoDuration
    /\ dout = NoSeconds
    /\ xtext = NoText
    /\ peer = NoPeer

\* lines 380-496 applied to the response text
ExtractStage ==
    /\ pc = "extract"
    /\ xtext' = StripFences(Strip(xin.text))
    /\ xout' = Extract(xin.text)
    /\ pc' = "extracted"
    /\ UNCHANGED <<storeVars, reports, localVars, runs, log, retry, ophist,
                   vin, vout, uc, xin, din, dout, channel, peer>>

NextExtract == ExtractStage

SpecExtract == InitExtract /\ [][NextExtract]_vars


----------------------------------------------------------------------------
(* parse_duration_to_seconds on its own, over a family of duration strings *)

\* the values a component is written with; Absent: the component is left out
Absent == 0 - 1
ComponentValues == {Absent, 0, 7, 59, 100}
Component(n, letter) == IF n = Absent THEN <<>> ELSE IntText(n) \o <<letter>>
Counted(n) == IF n = Absent THEN 0 ELSE n

\* PT[nH][nM][nS]
DurationInputs ==
    {[text |-> <<"P", "T">> \o Component(h, "H") \o Component(m, "M") \o Component(sec, "S"),
      form |-> "pt", h |-> Counted(h), m |-> Counted(m), s |-> Counted(sec)] :
        h \in ComponentValues, m \in ComponentValues, sec \in ComponentValues}

\* strings in which no component matches
UnmatchedTexts ==
    { <<>>,
      <<"P">>,
      <<"5", "M">>,
      <<"P", "T", "5">>,
      <<"P", "T", "M">>,
      <<"P", "T", "-", "5", "M">>,
      <<"P", "T", " ", "5", "M">>,
      <<" ", "P", "T", "5", "M">>,
      <<"p", "t", "5", "m">>,
      <<"P", "5", "M">>,
      <<"P", "1", "D", "T", "2", "H">>,
      <<"T", "5", "S">>,
      <<"P", "T", "5", "s">>,
      <<"5", "P", "T", "5", "S">>,
      <<"l", "i", "v", "e">> }
UnmatchedInputs ==
    {[text |-> t, form |-> "nomatch", h |-> 0, m |-> 0, s |-> 0] : t \in UnmatchedTexts}

InitDuration ==
    /\ EmptyStore
    /\ pc = "parse_duration_to_seconds"
    /\ retry = RetryIdle
    /\ ophist = <<>>
    /\ vin = NoPayload
    /\ vout = NoResult
    /\ uc = UsageCallers(0, 0)
    /\ xin = NoInput
    /\ xout = NoExtract
    /\ din \in DurationInputs \cup UnmatchedInputs
    /\ dout = NoSeconds
    /\ xtext = NoText
    /\ peer = NoPeer

\* fetch_videos.py lines 6-23 applied to the string
ParseOne ==
    /\ pc = "parse_duration_to_seconds"
    /\ dout' = ParseDuration(din.text)
    /\ pc' = "parsed"
    /\ UNCHANGED <<storeVars, reports, localVars, runs, log, retry, ophist,
                   vin, vout, uc, xin, xout, din, xtext, channel, peer>>

NextDuration == ParseOne

SpecDuration == InitDuration /\ [][NextDuration]_vars

----------------------------------------------------------------------------
(* The usage counter on its own: one caller (runs do not overlap) or two
   (overlapping runs), the calendar day advancing, and reads and writes of
   gemini_usage.txt that can fail *)

MaxIncrements == 3
MaxDay == 3

\* the records the file can hold at the start: none, one of an earlier day,
\* one of today
InitialRecords ==
    {NoRecord, UsageRecord(0, 2), UsageRecord(1, 2)}

InitUsage ==
    /\ videos = <<>>
    /\ reports = <<>>
    /\ usage \in InitialRecords
    /\ today = 1
    /\ pc = "usage"
    /\ video = NoVideo
    /\ reports_array = <<>>
    /\ idx = 0
    /\ image_url = NoUrl
    /\ runs = 0
    /\ log = LogInit
    /\ retry = RetryIdle
    /\ ophist = <<>>
    /\ vin = NoPayload
    /\ vout = NoResult
    /\ \E n \in 1..2 : uc = UsageCallers(n, GetUsageCount(usage, 1))
    /\ xin = NoInput
    /\ xout = NoExtract
    /\ din = NoDuration
    /\ dout = NoSeconds
    /\ xtext = NoText
    /\ channel = <<>>
    /\ peer = NoPeer

UsageFrame == <<videos, reports, pc, localVars, runs, log, retry, ophist, vin, vout,
                xin, xout, din, dout, xtext, channel, peer>>

Busy(p) == uc.frame[p].pc # "idle"

\* main, line 677: get_gemini_usage_count() on its own; an exception inside
\* it (lines 49-51) makes it return 0
UsageRead(p) ==
    /\ pc = "usage"
    /\ ~Busy(p)
    /\ \E failed \in BOOLEAN :
          uc' = [uc EXCEPT !.last_read =
                    [done |-> TRUE,
                     val |-> IF failed THEN 0 ELSE GetUsageCount(usage, today),
                     file |-> usage, day |-> today, failed |-> failed]]
    /\ UNCHANGED <<usage, today, UsageFrame>>

\* line 57: today = datetime.now().strftime('%Y-%m-%d')
IncStart(p) ==
    /\ pc = "usage"
    /\ ~Busy(p)
    /\ uc.started < MaxIncrements
    /\ uc' = [uc EXCEPT !.frame[p] = [CallerIdle EXCEPT !.pc = "get", !.today = today],
                        !.started = @ + 1,
                        !.overlap = @ \/ \E q \in 1..uc.callers : q # p /\ Busy(q)]
    /\ UNCHANGED <<usage, today, UsageFrame>>

\* line 58: current_count = get_gemini_usage_count(), which reads the clock
\* again (line 43) and returns 0 when reading the file raises
IncGet(p) ==
    /\ pc = "usage"
    /\ uc.frame[p].pc = "get"
    /\ \E failed \in BOOLEAN :
          uc' = [uc EXCEPT !.frame[p].pc = "write",
                           !.frame[p].current =
                               IF failed THEN 0 ELSE GetUsageCount(usage, today),
                           !.frame[p].rfail = failed,
                           !.dirty = @ \/ failed]
    /\ UNCHANGED <<usage, today, UsageFrame>>

\* lines 59-68: new_count = current_count + 1, the file is overwritten and
\* new_count returned; when open() or the write raises, 0 is returned and the
\* file is left as it was or, opened with 'w', empty
IncWrite(p) ==
    /\ pc = "usage"
    /\ uc.frame[p].pc = "write"
    /\ LET new_count == uc.frame[p].current + 1
       IN  \/ /\ usage' = UsageRecord(uc.frame[p].today, new_count)
              /\ uc' = [uc EXCEPT !.frame[p] = CallerIdle, !.n = @ + 1,
                                  !.last_ret = new_count, !.last_write = "written"]
           \/ /\ usage' = usage
              /\ uc' = [uc EXCEPT !.frame[p] = CallerIdle, !.n = @ + 1,
                                  !.last_ret = 0, !.last_write = "not_opened",
                                  !.dirty = TRUE]
           \/ /\ usage' = NoRecord
              /\ uc' = [uc EXCEPT !.frame[p] = CallerIdle, !.n = @ + 1,
                                  !.last_ret = 0, !.last_write = "truncated",
                                  !.dirty = TRUE]
    /\ UNCHANGED <<today, UsageFrame>>

\* midnight passes
DayChange ==
    /\ pc = "usage"
    /\ today < MaxDay
    /\ today' = today + 1
    /\ uc' = [uc EXCEPT !.n = 0, !.prev = uc.n, !.base = 0, !.overlap = FALSE,
                        !.dirty = \E q \in 1..uc.callers : Busy(q)]
    /\ UNCHANGED <<usage, UsageFrame>>

NextUsage ==
    \/ \E p \in 1..uc.callers : UsageRead(p)
    \/ \E p \in 1..uc.callers : IncStart(p)
    \/ \E p \in 1..uc.callers : IncGet(p)
    \/ \E p \in 1..uc.callers : IncWrite(p)
    \/ DayChange

SpecUsage == InitUsage /\ [][NextUsage]_vars

----------------------------------------------------------------------------
(* Claims *)

AllFail(h) == \A j \in 1..Len(h) : h[j] = "fail"
FailsThenOk(h) ==
    /\ Len(h) >= 1
    /\ h[Len(h)] = "ok"
    /\ \A j \in 1..(Len(h) - 1) : h[j] = "fail"

\* C10: with max_retries = m >= 1 the wrapper invokes the operation until its
\* first success and at most m times: while it runs every invocation so far
\* failed and fewer than m were made; it returns right after the first
\* success (k failures, then k+1 invocations, k < m); it raises only after
\* exactly m failed invocations; it never ends any other way.
C10_RetryCount ==
    (pc = "retry_supabase_operation" /\ retry.max_retries >= 1) =>
        /\ retry.calls = Len(ophist)
        /\ retry.result \in {"running", "returned", "raised"}
        /\ retry.result = "running" =>
              AllFail(ophist) /\ Len(ophist) < retry.max_retries
        /\ retry.result = "returned" =>
              FailsThenOk(ophist) /\ Len(ophist) <= retry.max_retries
        /\ retry.result = "raised" =>
              AllFail(ophist) /\ Len(ophist) = retry.max_retries

\* C10 witness: max_retries = 3, two failures, then the success is returned
\* after exactly 3 invocations
C10_Witness ==
    /\ pc = "retry_supabase_operation"
    /\ retry.max_retries = 3
    /\ retry.result = "returned"
    /\ ophist = <<"fail", "fail", "ok">>
    /\ retry.calls = 3

\* the sub-results of a report: the 'result' values of the entries of its
\* basic_tests that are mappings holding a 'result'
SubResults(report_json) ==
    LET bt == DictGet(report_json, "basic_tests", JObj(<<>>))
    IN  IF bt.t # "obj" THEN <<>>
        ELSE LET es == SelectSeq(bt.kv, LAMBDA e : e[2].t = "obj" /\ HasKey(e[2], "result"))
             IN  [j \in 1..Len(es) |-> DictGet(es[j][2], "result", JNull)]

\* C9 as stated: the verdict is pass when every sub-result is "passed" (and
\* there is one), and fail whenever some sub-result differs from "passed".
C9_Original ==
    (pc = "derived" /\ ~vout.raised) =>
        LET rs == SubResults(vin)
        IN  /\ (Len(rs) > 0 /\ \A j \in 1..Len(rs) : rs[j].s = S_passed)
                  => vout.verdict = S_pass
            /\ (\E j \in 1..Len(rs) : rs[j].s # S_passed)
                  => vout.verdict = S_fail

\* C9 amended: sub-results are compared after trimming surrounding whitespace
\* and lower-casing: the verdict is pass when there is a sub-result and every
\* one is "passed" after that normalisation, and fail whenever some
\* sub-result differs from "passed" after it.
C9_Normalised ==
    (pc = "derived" /\ ~vout.raised) =>
        LET rs == SubResults(vin)
        IN  /\ (Len(rs) > 0 /\ \A j \in 1..Len(rs) : Lower(Strip(rs[j].s)) = S_passed)
                  => vout.verdict = S_pass
            /\ (\E j \in 1..Len(rs) : Lower(Strip(rs[j].s)) # S_passed)
                  => vout.verdict = S_fail

\* C9 witness: the sub-results "passed" and " Passed" give the verdict pass
C9_Witness ==
    /\ pc = "derived"
    /\ vin = Payload(<<1, 2>>, 0)
    /\ ~vout.raised
    /\ vout.verdict = S_pass

\* the text the verdict is taken from when basic_tests is a mapping without
\* sub-results: its 'verdict' entry, trimmed and lower-cased
FallbackText(report_json) ==
    Lower(Strip(DictGet(DictGet(report_json, "basic_tests", JObj(<<>>)),
                        "verdict", JStr(S_fail)).s))

\* C8: every stored Report row has a verdict among pass, fail, not assigned
\* and pending; a row just inserted from a report without basic_tests (absent
\* or empty), or whose derived value is none of the four, has verdict fail.
C8_VerdictAllowed ==
    /\ \A id \in DOMAIN reports :
          reports[id].verdict \in {S_pass, S_fail, S_not_assigned, S_pending}
    /\ pc = "fetch_product_image" =>
          LET e == ReportElems[reports_array[idx + 1]]
              bt == DictGet(e, "basic_tests", JObj(<<>>))
              row == reports[ReportId(video.id, idx)]
          IN  /\ ~Truthy(bt) => row.verdict = S_fail
              /\ (Truthy(bt) /\ Len(SubResults(e)) = 0
                    /\ FallbackText(e) \notin {S_pass, S_fail, S_not_assigned, S_pending})
                    => row.verdict = S_fail

\* C8 witness: a row was just inserted from a report whose derived value,
\* "null", is none of the four: it is stored as fail
C8_Witness ==
    /\ pc = "fetch_product_image"
    /\ ReportElems[reports_array[idx + 1]] = E_null
    /\ FallbackText(E_null) = <<"n", "u", "l", "l">>
    /\ ReportId(video.id, idx) \in DOMAIN reports
    /\ reports[ReportId(video.id, idx)].verdict = S_fail

----------------------------------------------------------------------------
(* Claims about process_pending_video *)

\* the run is over: process_pending_video has returned to main
Returned == pc = "check_new_videos"

\* the Report rows of a Video
RowsOf(v) == {id \in DOMAIN reports : reports[id].video_id = v}

\* C1 as stated: a status changes only along pending -> updating ->
\* {completed, failed}.
C1_Original ==
    [][\A r \in 1..Len(videos) :
          videos'[r].status # videos[r].status =>
             \/ videos[r].status = "pending" /\ videos'[r].status = "updating"
             \/ videos[r].status = "updating"
                   /\ videos'[r].status \in {"completed", "failed"}]_vars

\* C1 amended: updating is written only over pending, completed only over
\* updating, and failed over updating or, when the write of updating failed
\* on every retry, over pending.
C1_StatusGraph ==
    [][\A r \in 1..Len(videos) :
          videos'[r].status # videos[r].status =>
             \/ videos[r].status = "pending" /\ videos'[r].status = "updating"
             \/ videos[r].status = "updating"
                   /\ videos'[r].status \in {"completed", "failed"}
             \/ /\ videos[r].status = "pending" /\ videos'[r].status = "failed"
                /\ r = log.sel
                /\ "updating" \in log.exhausted]_vars

\* C1 witness: the write of updating failed on every retry and the Video
\* went from pending to failed
C1_Witness ==
    /\ Returned
    /\ log.sel # 0
    /\ "updating" \in log.exhausted
    /\ log.trail = <<"failed">>
    /\ videos[log.sel].status = "failed"

\* every store operation of the run succeeded within its retries
AllStoreOk ==
    /\ ~log.select_raised
    /\ log.exhausted = {}
    /\ log.skipped = {}
    /\ log.imgfail = {}

\* what C2 promises of a run over k reports
C2_Outcome ==
    LET k == Len(reports_array)
    IN  /\ RowsOf(log.sel) = {ReportId(log.sel, i) : i \in 0..(k - 1)}
        /\ log.trail = <<"updating", "completed">>
        /\ videos[log.sel].status = "completed"
        /\ videos[log.sel].retry_count = log.pre + 1

\* C2 as stated: a pending Video, k >= 1 report mappings from the model and
\* every store operation successful give k rows, updating then completed,
\* and retry_count one more than before.
C2_Original ==
    (Returned /\ log.sel # 0 /\ log.gen = "ok" /\ AllStoreOk) => C2_Outcome

\* the summary fields of every element can be derived (no element makes
\* lines 116-152 raise)
AllDerivable(arr) ==
    \A j \in 1..Len(arr) :
        LET e == ReportElems[arr[j]]
            info == DictGet(e, "product_info", JObj(<<>>))
            bt == DictGet(e, "basic_tests", JObj(<<>>))
        IN  /\ info.t = "obj"
            /\ \A key \in {"company_name", "product_name", "product_category"} :
                  DictGet(info, key, JStr(<<>>)).t = "str"
            /\ (~Truthy(bt) \/ bt.t = "obj")
            /\ \A i \in 1..Len(SubResults(e)) : SubResults(e)[i].t = "str"
            /\ (Truthy(bt) /\ Len(SubResults(e)) = 0)
                  => DictGet(bt, "verdict", JStr(S_fail)).t = "str"

\* C2 amended: the same, for k >= 1 report mappings whose summary fields can
\* all be derived (product_info a mapping with text fields, basic_tests empty
\* or a mapping with text results).
C2_EndToEnd ==
    (Returned /\ log.sel # 0 /\ log.gen = "ok" /\ AllStoreOk
        /\ AllDerivable(reports_array)) => C2_Outcome

\* C2 witness: two reports, every store operation successful
C2_Witness ==
    /\ Returned
    /\ log.sel # 0
    /\ log.gen = "ok"
    /\ AllStoreOk
    /\ Len(reports_array) = 2
    /\ AllDerivable(reports_array)
    /\ Cardinality(RowsOf(log.sel)) = 2
    /\ videos[log.sel].status = "completed"

\* the failures C3 names: the model call failed, the response held no usable
\* content, the extraction gave nothing
ModelFailures == {"api_error", "no_content", "extract_failed", "empty_list"}

\* C3 as stated: after a failed generation no row was written, the Video is
\* failed, retry_count rose by one and the model was invoked at most once.
C3_Original ==
    (Returned /\ log.gen \in ModelFailures) =>
        /\ RowsOf(log.sel) = {}
        /\ videos[log.sel].status = "failed"
        /\ videos[log.sel].retry_count = log.pre + 1
        /\ log.calls <= 1

\* C3 amended: after a failed generation no row was written, retry_count rose
\* by one, the model was invoked at most once, and the Video is failed when
\* the write of failed succeeded within its retries; when that write failed
\* on every retry the Video is left updating.
C3_GenerationFailed ==
    (Returned /\ log.gen \in ModelFailures) =>
        /\ RowsOf(log.sel) = {}
        /\ videos[log.sel].retry_count = log.pre + 1
        /\ log.calls <= 1
        /\ videos[log.sel].status =
              (IF "failed" \in log.exhausted THEN "updating" ELSE "failed")

\* C3 witness: the model call failed and the Video was written failed
C3_Witness ==
    /\ Returned
    /\ log.gen = "api_error"
    /\ log.calls = 1
    /\ log.trail = <<"updating", "failed">>
    /\ videos[log.sel].status = "failed"
    /\ videos[log.sel].retry_count = log.pre + 1

\* C4: a report whose insert failed on every retry is skipped alone: it has
\* no row, no image lookup and no image update; a failed image update leaves
\* the inserted row in place (still pending); and when nothing but inserts
\* and image updates failed, every other report has its row, its lookup and
\* its image update, and the Video is completed.
C4_Isolation ==
    (Returned /\ log.gen = "ok") =>
        /\ \A i \in log.skipped :
              /\ ReportId(log.sel, i) \notin DOMAIN reports
              /\ i \notin log.lookups
              /\ i \notin log.imgtried
        /\ \A i \in log.imgfail :
              /\ ReportId(log.sel, i) \in DOMAIN reports
              /\ reports[ReportId(log.sel, i)].image_status = "pending"
        /\ (AllDerivable(reports_array) /\ "completed" \notin log.exhausted) =>
              /\ videos[log.sel].status = "completed"
              /\ \A i \in (0..(Len(reports_array) - 1)) \ log.skipped :
                    /\ ReportId(log.sel, i) \in DOMAIN reports
                    /\ i \in log.lookups
                    /\ i \in log.imgtried

\* C4 witness: the first insert failed on every retry, the second report was
\* inserted and enriched, the Video is completed
C4_Witness ==
    /\ Returned
    /\ log.gen = "ok"
    /\ Len(reports_array) = 2
    /\ log.skipped = {0}
    /\ RowsOf(log.sel) = {ReportId(log.sel, 1)}
    /\ reports[ReportId(log.sel, 1)].image_status = "completed"
    /\ videos[log.sel].status = "completed"

\* C5: no exception leaves process_pending_video: the process is always at a
\* position of main, and a run that has ended has run check_new_videos.
C5_NoPropagation ==
    /\ pc \in {"idle", "select", "update_video_status", "generate_report_with_gemini",
               "derive", "insert_report", "fetch_product_image", "update_image",
               "update_video_completed", "update_video_failed", "check_new_videos"}
    /\ (pc = "idle" /\ runs > 0) => log.checked

\* C5 witness: the write of failed itself failed on every retry, and main
\* went on to check_new_videos and ended
C5_Witness ==
    /\ pc = "idle"
    /\ log.checked
    /\ "failed" \in log.exhausted
    /\ videos[log.sel].status = "updating"

\* C6: the Video selected was pending and no pending Video had a later
\* published_at; a run that selected none made no store write, no model call
\* and no usage-counter increment.
C6_Selection ==
    /\ log.sel # 0 =>
          /\ log.sel \in log.pend
          /\ \A q \in log.pend : videos[q].published_at <= videos[log.sel].published_at
    /\ (Returned /\ log.sel = 0) =>
          /\ log.writes = 0
          /\ log.calls = 0
          /\ log.incs = 0
          /\ log.trail = <<>>

\* C6 witness: of several pending Videos the newest, which is not the first
\* row, was selected
C6_Witness ==
    /\ log.sel = 3
    /\ Cardinality(log.pend) >= 2
    /\ \A q \in log.pend \ {3} : videos[q].published_at < videos[3].published_at

\* C7: a step changes no Video row but the one the run selected, which was
\* pending at selection; a row whose status is completed or failed is never
\* changed and never selected.
C7_Frame ==
    [][\A r \in 1..Len(videos) :
          /\ videos'[r] # videos[r] => (r = log.sel /\ r = video.id /\ r \in log.pend)
          /\ videos[r].status \in {"completed", "failed"} =>
                (videos'[r] = videos[r] /\ (video'.id = r => video.id = r))
          /\ (video'.id = r /\ video.id # r) => videos[r].status = "pending"]_vars

\* C7 witness: a second run processed a Video while another row, left
\* completed or failed by the first run, stayed as it was
C7_Witness ==
    /\ Returned
    /\ runs = 2
    /\ log.sel # 0
    /\ videos[log.sel].status = "completed"
    /\ \E r \in 1..Len(videos) :
          r # log.sel /\ videos[r].status \in {"completed", "failed"}

----------------------------------------------------------------------------
(* retry_supabase_operation: how a call ends, and its waits *)

\* C11 as stated: for every maximum attempt count the wrapper returns
\* normally only with the result of an invocation that succeeded, and a call
\* that ends without a successful invocation ends by raising.
C11_Original ==
    (pc = "retry_supabase_operation" /\ retry.result # "running") =>
        \/ retry.result = "returned" /\ FailsThenOk(ophist)
        \/ retry.result = "raised" /\ AllFail(ophist)

\* C11 amended: for every maximum attempt count of at least 1 the wrapper
\* returns normally only with the result of an invocation that succeeded and
\* raises when no invocation succeeds; with a maximum attempt count of 0 it
\* makes no invocation and returns None.
C11_NoSilentReturn ==
    (pc = "retry_supabase_operation" /\ retry.result # "running") =>
        IF retry.max_retries >= 1
        THEN \/ retry.result = "returned" /\ FailsThenOk(ophist)
             \/ retry.result = "raised" /\ AllFail(ophist) /\ Len(ophist) >= 1
        ELSE retry.result = "none" /\ ophist = <<>>

\* C11 witness: a call with max_retries = 2 whose two invocations failed
\* ended by raising
C11_Witness ==
    /\ pc = "retry_supabase_operation"
    /\ retry.max_retries = 2
    /\ ophist = <<"fail", "fail">>
    /\ retry.result = "raised"

\* the sum of a sequence of numbers
RECURSIVE SumSeq(_)
SumSeq(q) == IF q = <<>> THEN 0 ELSE q[1] + SumSeq(Tail(q))

\* C12: the k-th consecutive failed attempt with k < max_retries is followed
\* by a wait of delay * 2^(k-1); the final failed attempt is followed by no
\* wait; with the defaults (3 attempts, delay 2) an operation that always
\* fails is waited for 2 + 4 = 6 time units in total.
C12_Backoff ==
    (pc = "retry_supabase_operation" /\ retry.max_retries >= 1) =>
        LET fails == Len(SelectSeq(ophist, LAMBDA o : o = "fail"))
            nwaits == IF fails < retry.max_retries THEN fails
                      ELSE retry.max_retries - 1
        IN  /\ Len(retry.waits) = nwaits
            /\ \A k \in 1..nwaits : retry.waits[k] = retry.delay * (2 ^ (k - 1))
            /\ retry.waited = SumSeq(retry.waits)
            /\ (retry.result = "raised" /\ retry.max_retries = DefaultMaxRetries
                   /\ retry.delay = DefaultDelay)
                  => retry.waits = <<2, 4>> /\ retry.waited = 6

\* C12 witness: the defaults, three failures: waits 2 and 4, none after the
\* third
C12_Witness ==
    /\ pc = "retry_supabase_operation"
    /\ retry.max_retries = DefaultMaxRetries
    /\ retry.delay = DefaultDelay
    /\ ophist = <<"fail", "fail", "fail">>
    /\ retry.result = "raised"
    /\ retry.waits = <<2, 4>>
    /\ retry.waited = 6

----------------------------------------------------------------------------
(* The usage counter *)

\* C13: with one caller, no failed read or write, and the day begun with no
\* record or a record of an earlier day, the n-th increment of the day
\* returns n and leaves the record (today, n), for every n >= 1: so N calls
\* return 1..N, and the first call after a day change returns 1 and leaves
\* (new day, 1).  A read returns 0 when there is no record or the stored date
\* is not today (and the stored count otherwise).
C13_DailyCount ==
    (pc = "usage" /\ uc.callers = 1) =>
        /\ (~uc.dirty /\ uc.base = 0 /\ uc.n >= 1) =>
              /\ uc.last_ret = uc.n
              /\ usage = [date |-> today, count |-> uc.n]
        /\ (uc.last_read.done /\ ~uc.last_read.failed) =>
              uc.last_read.val =
                 IF uc.last_read.file = NoRecord
                       \/ uc.last_read.file.date # uc.last_read.day
                 THEN 0 ELSE uc.last_read.file.count

\* C13 witness: two increments on one day, then the day changed and the
\* first increment of the new day returned 1 and left (new day, 1)
C13_Witness ==
    /\ pc = "usage"
    /\ uc.callers = 1
    /\ ~uc.dirty
    /\ uc.prev = 2
    /\ today = 2
    /\ uc.n = 1
    /\ uc.last_ret = 1
    /\ usage = [date |-> 2, count |-> 1]

\* C15 as stated: with a single caller the persisted count never decreases
\* within one calendar day and goes back to zero only when the stored date
\* differs from the current date, also when a read or a write of the record
\* fails.
C15_Original ==
    [][(pc = "usage" /\ uc.callers = 1) =>
          \/ usage'.count >= usage.count
          \/ usage.date # today]_vars

\* What the code does guarantee of a single caller: the persisted count
\* decreases within a day only through a failure.  When the read inside an
\* increment fails the count is taken as 0 and the record becomes (today, 1);
\* when the write fails after the file was opened for writing the record is
\* left empty.
DecreasesOnlyOnFailure ==
    [][(pc = "usage" /\ uc.callers = 1) =>
          \/ usage'.count >= usage.count
          \/ usage.date # today
          \/ /\ uc.frame[1].rfail
             /\ uc'.last_write = "written"
             /\ usage' = [date |-> uc.frame[1].today, count |-> 1]
          \/ /\ uc.frame[1].pc = "write"
             /\ uc'.last_write = "truncated"
             /\ usage' = NoRecord]_vars


\* C16: increment_gemini_usage_count reads, adds one and overwrites the whole
\* record without a lock.  With two callers and no failed read or write, the
\* count after n increments of a day never exceeds n, and it is exactly n
\* when no two increments overlapped; when two overlap an update can be lost
\* (the witness: two increments, count 1).
C16_LostUpdate ==
    (pc = "usage" /\ uc.callers = 2 /\ ~uc.dirty /\ uc.base = 0 /\ uc.n >= 1) =>
        /\ usage.date = today
        /\ usage.count <= uc.n
        /\ ~uc.overlap => usage.count = uc.n /\ uc.last_ret = uc.n

\* C16 witness: two callers, two overlapping increments completed without a
\* failure, and the record counts 1
C16_Witness ==
    /\ pc = "usage"
    /\ uc.callers = 2
    /\ ~uc.dirty
    /\ uc.base = 0
    /\ uc.overlap
    /\ uc.n = 2
    /\ ~Busy(1) /\ ~Busy(2)
    /\ usage = [date |-> today, count |-> 1]

----------------------------------------------------------------------------
(* generate_report_with_gemini and the usage counter *)

\* C14 as stated: each invocation of generate_report_with_gemini increments
\* the usage counter exactly once whatever its outcome, an error raised
\* before the request is sent included.
C14_Original ==
    [][pc = "generate_report_with_gemini" =>
          /\ log'.incs = log.incs + 1
          /\ usage' = [date |-> today, count |-> GetUsageCount(usage, today) + 1]]_vars

\* C14 amended: an invocation that reaches the request increments the usage
\* counter exactly once whatever the outcome of the request (model call
\* succeeded, model call failed, empty response, extraction failed); an
\* invocation in which an error is raised before the request is sent does
\* not increment it.
C14_OncePerRequest ==
    [][pc = "generate_report_with_gemini" =>
          IF log'.gen = "client_error"
          THEN log'.incs = log.incs /\ usage' = usage
          ELSE /\ log'.incs = log.incs + 1
               /\ usage' = [date |-> today, count |-> GetUsageCount(usage, today) + 1]]_vars

\* C14 witness: in the second run the model call failed, and the counter
\* went from 1 to 2 all the same
C14_Witness ==
    /\ runs = 2
    /\ log.gen = "api_error"
    /\ log.incs = 1
    /\ usage = [date |-> today, count |-> 2]

----------------------------------------------------------------------------
(* The extraction stage *)

\* C17 as stated: for every response text the extraction stage returns
\* either a non-empty list whose every element is a mapping or no result:
\* never an empty list, a list with an element that is no mapping, or a bare
\* scalar.
C17_Original ==
    pc = "extracted" =>
        \/ xout.status = "none"
        \/ /\ xout.status = "list"
           /\ Len(xout.value.items) > 0
           /\ \A j \in 1..Len(xout.value.items) : IsDict(xout.value.items[j])

\* C18 as stated: a list of report mappings written as a JSON array is
\* returned as an equal list, and the same list written as objects one after
\* the other, with no array and no commas, is returned as an equal list
\* through the brace-balanced fallback, whatever the string values hold.
C18_Original ==
    (pc = "extracted" /\ xin.form \in {"array", "concat"}) =>
        xout = ReturnsList(xin.reports)

\* whether a string somewhere in v holds a brace
RECURSIVE HoldsBrace(_)
HoldsBrace(v) ==
    CASE v.t = "str" -> \E j \in 1..Len(v.s) : v.s[j] \in {"{", "}"}
      [] v.t = "obj" -> \E j \in 1..Len(v.kv) : HoldsBrace(v.kv[j][2])
      [] v.t = "list" -> \E j \in 1..Len(v.items) : HoldsBrace(v.items[j])
      [] OTHER -> FALSE

\* What the code does guarantee: the round trip of the concatenated form
\* holds whenever no string value holds a brace.
RoundTripWithoutBraces ==
    (pc = "extracted" /\ xin.form \in {"array", "concat"}
        /\ \A j \in 1..Len(xin.reports) : ~HoldsBrace(xin.reports[j])) =>
        xout = ReturnsList(xin.reports)

\* the key of a numbered value
IdOf(v) == Join(DictGet(v, "id", JNull).s)

\* C19: for a top-level mapping whose keys are all decimal-digit strings the
\* extraction returns the values of all the keys, ordered by the numeric
\* value of the keys ("2" before "10"), whatever the order in which the keys
\* appear in the mapping (keys of equal numeric value, "2" and "02", stay in
\* their order of appearance).
C19_NumericOrder ==
    (pc = "extracted" /\ xin.form = "numbered") =>
        /\ xout.status = "list"
        /\ Len(xout.value.items) = Len(xin.reports)
        /\ \A j \in 1..Len(xin.reports) :
              \E i \in 1..Len(xout.value.items) : xout.value.items[i] = xin.reports[j]
        /\ \A i, j \in 1..Len(xout.value.items) :
              i < j => \/ IntOf(Chars(IdOf(xout.value.items[i])))
                            < IntOf(Chars(IdOf(xout.value.items[j])))
                       \/ /\ IntOf(Chars(IdOf(xout.value.items[i])))
                               = IntOf(Chars(IdOf(xout.value.items[j])))
                          /\ \E a, b \in 1..Len(xin.reports) :
                                /\ a < b
                                /\ xin.reports[a] = xout.value.items[i]
                                /\ xin.reports[b] = xout.value.items[j]

\* C19 witness: the keys appear in the order "10", "2", "1" and the values
\* come out in the order 1, 2, 10
C19_Witness ==
    /\ pc = "extracted"
    /\ xin.form = "numbered"
    /\ xin.reports = <<Numbered("10"), Numbered("2"), Numbered("1")>>
    /\ xout = ReturnsList(<<Numbered("1"), Numbered("2"), Numbered("10")>>)

----------------------------------------------------------------------------
(* parse_duration_to_seconds *)

\* C20: for every string PT[nH][nM][nS] (any subset of the components, in
\* that order) the result is exactly 3600*h + 60*m + s, a component left out
\* counting as 0; for every string in which no component matches the result
\* is 0.
C20_ExactSum ==
    pc = "parsed" =>
        /\ din.form = "pt" => dout = 3600 * din.h + 60 * din.m + din.s
        /\ din.form = "nomatch" => dout = 0

\* C20 witness: PT7H100S, the minutes left out, gives 7 * 3600 + 100
C20_Witness ==
    /\ pc = "parsed"
    /\ din.text = <<"P", "T", "7", "H", "1", "0", "0", "S">>
    /\ dout = 25300

----------------------------------------------------------------------------
(* check_new_videos *)

\* C21 as stated: check_new_videos never inserts a Video whose video_id is
\* already stored in the videos collection, whatever the number of stored
\* videos and whatever threshold they were stored with.
C21_Original ==
    [][pc = "check_new_videos" =>
          \A r \in (Len(videos) + 1)..Len(videos') :
             \A q \in 1..Len(videos) : videos[q].video_id # videos'[r].video_id]_vars

----------------------------------------------------------------------------
(* The image fields of a Report row *)

\* the run of process_pending_video has ended
RunEnded == pc \in {"check_new_videos", "idle"}

\* the report loop has just gone through the image update of element i
ImageStepDone(i) == pc = "derive" /\ idx = i + 1 /\ i \in log.imgtried

\* C22 as stated: the enrichment step sets the image fields of every
\* persisted row, to completed with the URL found or to failed with no URL
\* when nothing was found, and no row is pending once its Video's run has
\* ended.
C22_Original ==
    /\ \A i \in 0..MaxReports :
          ImageStepDone(i) =>
             LET row == reports[ReportId(video.id, i)]
             IN  IF image_url # NoUrl
                 THEN row.image_status = "completed" /\ row.image_url = image_url
                 ELSE row.image_status = "failed" /\ row.image_url = NoUrl
    /\ RunEnded => \A id \in DOMAIN reports : reports[id].image_status # "pending"

\* C22 amended: the enrichment step writes the image fields of a persisted
\* row at most once, completed with the URL found or failed with no URL when
\* nothing was found; when that write fails on every retry the row keeps
\* image_status pending and no URL, also after the run has ended.  Only such
\* rows are pending at the end of the run.
C22_ImageOnce ==
    /\ \A i \in 0..MaxReports :
          ImageStepDone(i) =>
             LET row == reports[ReportId(video.id, i)]
             IN  IF i \in log.imgfail
                 THEN row.image_status = "pending" /\ row.image_url = NoUrl
                 ELSE IF image_url # NoUrl
                 THEN row.image_status = "completed" /\ row.image_url = image_url
                 ELSE row.image_status = "failed" /\ row.image_url = NoUrl
    /\ \A id \in DOMAIN reports :
          reports[id].image_status = "completed" <=> reports[id].image_url # NoUrl
    /\ (RunEnded /\ log.sel # 0) =>
          \A i \in 0..MaxReports :
             ReportId(log.sel, i) \in DOMAIN reports =>
                (reports[ReportId(log.sel, i)].image_status = "pending"
                    <=> i \in log.imgfail)

\* C22 witness: the run has ended with the Video completed, and the row of
\* report 0 is pending because the write of its image update failed on
\* every retry
C22_Witness ==
    /\ RunEnded
    /\ log.sel # 0
    /\ videos[log.sel].status = "completed"
    /\ 0 \in log.imgfail
    /\ ReportId(log.sel, 0) \in DOMAIN reports
    /\ reports[ReportId(log.sel, 0)].image_status = "pending"

----------------------------------------------------------------------------
(* The extraction stage: the shapes of a top-level mapping *)

\* the text handed to json.loads decodes to a mapping
WholeMapping == JsonLoads(xtext).ok /\ IsDict(JsonLoads(xtext).val)

\* C23 as stated: a top-level mapping with at least one key that is no
\* decimal-digit string and no `products` mapping is returned whole, as a
\* one-element list; the numbered-products rule applies only when all keys
\* are decimal-digit strings.
C23_Original ==
    (pc = "extracted" /\ WholeMapping) =>
        LET whole == JsonLoads(xtext).val
        IN  ( /\ \E j \in 1..Len(whole.kv) : ~IsDigitKey(whole.kv[j][1])
              /\ ~(HasKey(whole, "products") /\ IsDict(DictGet(whole, "products", JNull))) )
               => xout = ReturnsList(<<whole>>)

----------------------------------------------------------------------------
(* The extraction stage: the fence markers *)

\* a text with no or one leading fence marker taken off, verbatim
LeadingStrips(t) ==
    {t} \cup (IF StartsWith(t, FenceJson) THEN {Drop(t, 7)} ELSE {})
        \cup (IF StartsWith(t, Fence) THEN {Drop(t, 3)} ELSE {})

\* a text with no or one trailing fence marker taken off, verbatim
TrailingStrips(t) ==
    {t} \cup (IF EndsWith(t, Fence) THEN {SubSeq(t, 1, Len(t) - 3)} ELSE {})

\* C24 as stated: the text handed to the parser is the model text with at
\* most one leading and at most one trailing fence marker removed and the
\* surrounding whitespace stripped, also when the text starts with two
\* consecutive fence markers.
C24_Original ==
    pc = "extracted" =>
        \E a \in LeadingStrips(Strip(xin.text)) :
           \E b \in TrailingStrips(a) : xtext = Strip(b)

----------------------------------------------------------------------------
(* The extraction stage: the brace-balanced fallback *)

\* the pieces before the first one that is no object and no junk
RECURSIVE SoundPrefix(_)
SoundPrefix(l) ==
    IF l = <<>> \/ l[1].kind \in {"bad", "open"} THEN <<>>
    ELSE <<l[1]>> \o SoundPrefix(Tail(l))

\* the objects among pieces, in their order
ObjectsOf(l) ==
    LET objs == SelectSeq(l, LAMBDA q : q.kind = "obj")
    IN  [j \in 1..Len(objs) |-> objs[j].value]

\* C25: when the whole text does not parse, the fallback returns, in their
\* order in the text, exactly the objects of the balanced spans before the
\* first span that does not parse or is not balanced, never an object after
\* it, and no result when there is none before it; each iteration of the
\* scan ends at a position after the one it started from.
C25_Fallback ==
    (pc = "extracted" /\ ~JsonLoads(xtext).ok) =>
        /\ xin.form = "pieces" =>
              xout = (IF ObjectsOf(SoundPrefix(xin.reports)) = <<>> THEN ReturnsNone
                      ELSE ReturnsList(ObjectsOf(SoundPrefix(xin.reports))))
        /\ \A current_pos \in 1..Len(xtext) :
              LET start_pos == FindBrace(xtext, current_pos)
              IN  start_pos # 0 =>
                     /\ start_pos >= current_pos
                     /\ BraceEnd(xtext, start_pos) = 0
                           \/ BraceEnd(xtext, start_pos) > current_pos

\* C25 witness: an object, then a balanced span that does not parse, then an
\* object again; only the first object is returned
C25_Witness ==
    /\ pc = "extracted"
    /\ xin.form = "pieces"
    /\ Len(xin.reports) = 3
    /\ xin.reports[1].kind = "obj"
    /\ xin.reports[2].kind = "bad"
    /\ xin.reports[3].kind = "obj"
    /\ ~JsonLoads(xtext).ok
    /\ xout = ReturnsList(<<xin.reports[1].value>>)

----------------------------------------------------------------------------
(* Runs that follow one another and runs that overlap *)

\* the run with history l selected a Video and sent the model request for it
Processed(l) == l.sel # 0 /\ l.calls > 0

\* C26: two runs process the same Video only when they overlap (a run was
\* suspended inside main while the other one ran), never when one follows
\* the other; and when two runs do process the same Video, both selected it
\* with the same retry_count and the stored retry_count is that count plus
\* 1, not plus 2.
C26_Overlap ==
    (Processed(log) /\ Processed(peer.frame.log) /\ log.sel = peer.frame.log.sel) =>
        /\ peer.suspended
        /\ log.pre = peer.frame.log.pre
        /\ videos[log.sel].retry_count = log.pre + 1

\* C26 witness: two runs have ended, both selected the same pending Video
\* and sent the model request for it, and its retry_count has risen by 1
C26_Witness ==
    /\ pc = "idle"
    /\ peer.frame.pc = "idle"
    /\ Processed(log)
    /\ Processed(peer.frame.log)
    /\ log.sel = peer.frame.log.sel
    /\ log.pend = peer.frame.log.pend
    /\ videos[log.sel].retry_count = log.pre + 1

----------------------------------------------------------------------------
(* The Report rows and their Video *)

\* C27: a step that inserts a Report row inserts it for a Video row that
\* exists and has status updating before and after the insert (not pending,
\* completed or failed), and the video_id of every Report row is the id of
\* a Video row.
C27_InsertWhileUpdating ==
    [][/\ \A id \in (DOMAIN reports') \ (DOMAIN reports) :
             LET v == reports'[id].video_id
             IN  /\ v \in 1..Len(videos)
                 /\ videos[v].status = "updating"
                 /\ videos'[v].status = "updating"
       /\ \A id \in DOMAIN reports' : reports'[id].video_id \in 1..Len(videos')]_vars

\* C27 witness: the second report of a Video has just been inserted and the
\* Video is updating
C27_Witness ==
    /\ pc = "fetch_product_image"
    /\ idx = 1
    /\ ReportId(video.id, 1) \in DOMAIN reports
    /\ reports[ReportId(video.id, 1)].video_id = video.id
    /\ videos[video.id].status = "updating"

----------------------------------------------------------------------------
(* A run that leaves its Video failed *)

\* the run has ended and left the Video it selected failed
LeftFailed == Returned /\ log.sel # 0 /\ videos[log.sel].status = "failed"

\* C28 as stated: a run that leaves its Video failed inserted no Report row,
\* whichever step failed.
C28_Original ==
    LeftFailed => log.inserted = {} /\ RowsOf(log.sel) = {}

\* C28 amended: a run that leaves its Video failed inserted no Report row
\* when the write of updating or the generation failed; it inserted rows
\* only when the derivation of a later element raised (the rows of elements
\* before that one) or the write of completed failed on every retry, and
\* those rows stay.
C28_FailedRows ==
    LeftFailed =>
        /\ RowsOf(log.sel) = {ReportId(log.sel, i) : i \in log.inserted}
        /\ ("updating" \in log.exhausted \/ log.gen # "ok") => log.inserted = {}
        /\ log.inserted # {} => (log.derive_raised \/ "completed" \in log.exhausted)
        /\ log.derive_raised => \A i \in log.inserted : i < idx

\* C28 witness: the derivation of element 1 raised after the row of element 0
\* had been inserted; the Video is failed and the row is there
C28_Witness ==
    /\ LeftFailed
    /\ log.derive_raised
    /\ idx = 1
    /\ log.inserted = {0}
    /\ RowsOf(log.sel) = {ReportId(log.sel, 0)}

----------------------------------------------------------------------------
(* The status a run leaves its Video in *)

\* the run wrote updating to its Video
WroteUpdating == \E j \in 1..Len(log.trail) : log.trail[j] = "updating"

\* the run has ended and had moved the Video it selected to updating
MovedToUpdating == Returned /\ log.sel # 0 /\ WroteUpdating

\* C29 as stated: when process_pending_video returns, the Video it moved to
\* updating is completed or failed.
C29_Original ==
    MovedToUpdating => videos[log.sel].status \in {"completed", "failed"}

\* C29 amended: when process_pending_video returns, the Video it moved to
\* updating is completed or failed, or it is still updating because the
\* write of failed itself failed on every retry; and a Video a run works on
\* while it is updating was moved to updating by that run, so a Video left
\* updating is selected by no later run.
C29_TerminalUnlessWriteFailed ==
    /\ MovedToUpdating =>
          \/ videos[log.sel].status \in {"completed", "failed"}
          \/ /\ videos[log.sel].status = "updating"
             /\ "failed" \in log.exhausted
    /\ (video.id # 0 /\ videos[video.id].status = "updating") =>
          WroteUpdating

\* C29 witness: the write of completed failed on every retry, then the write
\* of failed did; the run has ended, the rows are there and the Video is
\* updating
C29_Witness ==
    /\ MovedToUpdating
    /\ log.exhausted = {"completed", "failed"}
    /\ log.inserted # {}
    /\ videos[log.sel].status = "updating"

====
